---- MODULE Spec2Model ----
(***************************************************************************)
(* Face-matching engine of the attendance system: the consensus validator, *)
(* the multi-metric similarity engine and the enroll / recognize pipeline  *)
(* of backend/ultra_robust_recognition.py.                                 *)
(*                                                                         *)
(* Numbers.  A similarity is kept in hundredths (0.95 is 95).  A mean of n *)
(* similarities (n <= 5) is kept exactly in units of 1/6000 and a variance *)
(* exactly in units of 1/36000000, so every comparison the code makes      *)
(* against a threshold is decided exactly.  The similarity engine works on *)
(* short integer vectors and rounds each metric down to hundredths, which  *)
(* leaves every comparison of a similarity with a threshold unchanged.     *)
(***************************************************************************)
EXTENDS Integers, Sequences, FiniteSets, TLC

(***************************************************************************)
(* Thresholds of UltraRobustFaceRecognition.__init__ (hundredths).         *)
(***************************************************************************)
ULTRA_HIGH_THRESHOLD == 95
HIGH_THRESHOLD == 85
MEDIUM_THRESHOLD == 75
MINIMUM_THRESHOLD == 65
MIN_CONSENSUS_COUNT == 3
MAX_VARIANCE == 15

\* The feature families, in the order calculate_multi_metric_similarity
\* walks them (the insertion order of the similarities dict).
FamilyOrder == <<"lbp", "gradient", "regional", "gabor", "edges">>

Families == {FamilyOrder[i] : i \in 1..Len(FamilyOrder)}

VARIABLES
    similarities,      \* validator: the dict family -> similarity passed in
    validation,        \* validator: the dict it returned
    prev_validation,   \* validator: what it returned for the previous candidate
    prev_counts,       \* validator: threshold counts of the previous candidate
    relation           \* how the candidate relates to the previous one

VARIABLES
    face_encodings,    \* self.face_encodings: student_id -> feature bundle
    face_data,         \* self.face_data: student_id -> metadata
    encodings_file,    \* ultra_face_encodings.json
    face_data_file,    \* ultra_face_data.json
    faces_dir,         \* the files in ultra_faces/
    call,              \* the last call made on the recognizer
    result             \* what that call returned

VARIABLES
    stage,             \* secure recognizer: how far the current request has come
    request,           \* secure recognizer: the image of the current request
    uploaded_face,     \* secure recognizer: the crop of the largest face
    secure_features,   \* secure recognizer: the feature vector of the crop
    secure_results,    \* secure recognizer: all_results of the comparison loop
    best_result,       \* secure recognizer: best_result of the comparison loop
    response,          \* secure recognizer: the dict the request returned
    face_features,     \* secure recognizer: self.face_features
    secure_face_data   \* secure recognizer: self.face_data

VARIABLES
    threads,           \* request threads of the server: position and locals
    temp_content       \* the image held by each temporary file of faces_dir

VARIABLES
    enhanced_face_data,       \* enhanced recognizer: self.face_data
    enhanced_face_features,   \* enhanced recognizer: self.face_features
    enhanced_face_data_file,  \* enhanced recognizer: faces/face_data.json
    enhanced_features_file,   \* enhanced recognizer: faces/face_features.json
    enhanced_faces_dir,       \* enhanced recognizer: the images in faces/
    enhanced_call,            \* enhanced recognizer: the last call made on it
    enhanced_result           \* enhanced recognizer: what that call returned

VARIABLES
    argument,          \* a function on its own: what it is applied to
    returned,          \* a function on its own: what it returned
    applied            \* a function on its own: which function was applied

VARIABLES
    attendance,        \* attendance API: the rows of the attendance table
    today,             \* attendance API: the day date.today() returns
    requests           \* attendance API: the /mark-attendance requests

VARIABLES
    students,          \* database-backed recognizer: the students table
    known_faces,       \* database-backed recognizer: self.known_faces
    db_call            \* database-backed recognizer: the last call, its result

vvars == <<similarities, validation, prev_validation, prev_counts, relation>>

rvars == <<face_encodings, face_data, encodings_file, face_data_file,
           faces_dir, call, result>>

svars == <<stage, request, uploaded_face, secure_features, secure_results,
           best_result, response, face_features, secure_face_data>>

tvars == <<threads, temp_content>>

evars == <<enhanced_face_data, enhanced_face_features, enhanced_face_data_file,
           enhanced_features_file, enhanced_faces_dir, enhanced_call,
           enhanced_result>>

avars == <<attendance, today, requests>>

dvars == <<students, known_faces, db_call>>

ovars == <<argument, returned, applied, avars, dvars>>

vars == <<similarities, validation, prev_validation, prev_counts, relation,
          face_encodings, face_data, encodings_file, face_data_file,
          faces_dir, call, result,
          stage, request, uploaded_face, secure_features, secure_results,
          best_result, response, face_features, secure_face_data,
          threads, temp_content,
          enhanced_face_data, enhanced_face_features, enhanced_face_data_file,
          enhanced_features_file, enhanced_faces_dir, enhanced_call,
          enhanced_result,
          argument, returned, applied,
          attendance, today, requests, students, known_faces, db_call>>

(***************************************************************************)
(* validate_recognition_with_consensus                                     *)
(***************************************************************************)
\* similarity_values = list(similarities.values())
similarity_values(sims) ==
    LET keys == SelectSeq(FamilyOrder, LAMBDA f : f \in DOMAIN sims)
    IN  [i \in 1..Len(keys) |-> sims[keys[i]]]

RECURSIVE SeqSum(_)
SeqSum(s) == IF s = <<>> THEN 0 ELSE Head(s) + SeqSum(Tail(s))

\* np.mean(similarity_values), in units of 1/6000
overall_similarity(values) == (SeqSum(values) * 60) \div Len(values)

\* np.var(similarity_values) (population variance), in units of 1/36000000
similarity_variance(values) ==
    LET n  == Len(values)
        s  == SeqSum(values)
        sq == SeqSum([i \in 1..n |-> values[i] * values[i]])
    IN  (n * sq - s * s) * (3600 \div (n * n))

\* sum(1 for sim in similarity_values if sim >= threshold)
CountAtLeast(values, threshold) ==
    Cardinality({i \in 1..Len(values) : values[i] >= threshold})

\* The four counts of lines 229-232.
ThresholdCounts(values) ==
    [ultra_high |-> CountAtLeast(values, ULTRA_HIGH_THRESHOLD),
     high       |-> CountAtLeast(values, HIGH_THRESHOLD),
     medium     |-> CountAtLeast(values, MEDIUM_THRESHOLD),
     minimum    |-> CountAtLeast(values, MINIMUM_THRESHOLD)]

\* The dict a decision returns; the reason is the leading words of the
\* message, without the figures formatted into it.
Verdict(accept, level, overall, count, variance, reason) ==
    [accept |-> accept, confidence_level |-> level,
     overall_similarity |-> overall, consensus_count |-> count,
     variance |-> variance, reason |-> reason]

\* Mutants of the validator: each is the validator with one comparison changed.
Decide(sims, ultra_ok, high_ok, medium_ok, variance_ok) ==
    LET values   == similarity_values(sims)
        overall  == overall_similarity(values)
        variance == similarity_variance(values)
        c        == ThresholdCounts(values)
        rest     == c.minimum >= MIN_CONSENSUS_COUNT /\ variance_ok
    IN  IF ultra_ok /\ overall >= ULTRA_HIGH_THRESHOLD * 60 /\ rest
        THEN Verdict(TRUE, "ULTRA_HIGH", overall, c.minimum, variance,
                     "Ultra-high consensus")
        ELSE IF high_ok /\ overall >= HIGH_THRESHOLD * 60 /\ rest
        THEN Verdict(TRUE, "HIGH", overall, c.minimum, variance,
                     "High consensus")
        ELSE IF medium_ok /\ overall >= MEDIUM_THRESHOLD * 60 /\ rest
        THEN Verdict(TRUE, "MEDIUM", overall, c.minimum, variance,
                     "Medium consensus")
        ELSE Verdict(FALSE, "REJECTED", overall, c.minimum, variance,
                     "Insufficient consensus")

\* medium_count >= 3 in place of medium_count >= 4
validate_medium_needs_three(sims) ==
    LET values == similarity_values(sims)
        c      == ThresholdCounts(values)
    IN  Decide(sims, c.ultra_high >= 3, c.high >= 3, c.medium >= 3,
               similarity_variance(values) < MAX_VARIANCE * 360000)

\* similarity_variance <= MAX_VARIANCE in place of <
validate_variance_inclusive(sims) ==
    LET values == similarity_values(sims)
        c      == ThresholdCounts(values)
    IN  Decide(sims, c.ultra_high >= 3, c.high >= 3, c.medium >= 4,
               similarity_variance(values) <= MAX_VARIANCE * 360000)

\* high_count == 3 in place of high_count >= 3
validate_high_exactly_three(sims) ==
    LET values == similarity_values(sims)
        c      == ThresholdCounts(values)
    IN  Decide(sims, c.ultra_high >= 3, c.high = 3, c.medium >= 4,
               similarity_variance(values) < MAX_VARIANCE * 360000)

\* similarity_variance > MAX_VARIANCE in place of <
validate_variance_flipped(sims) ==
    LET values == similarity_values(sims)
        c      == ThresholdCounts(values)
    IN  Decide(sims, c.ultra_high >= 3, c.high >= 3, c.medium >= 4,
               similarity_variance(values) > MAX_VARIANCE * 360000)

\* the tier is decided by the aggregated score and the variance alone,
\* without counting families
validate_on_score_alone(sims) ==
    IF DOMAIN sims = {}
    THEN [accept |-> FALSE,
          reason |-> "No similarity metrics calculated",
          confidence_level |-> "ERROR"]
    ELSE
    LET values   == similarity_values(sims)
        overall  == overall_similarity(values)
        variance == similarity_variance(values)
        c        == ThresholdCounts(values)
        low_variance == variance < MAX_VARIANCE * 360000
    IN  IF overall >= ULTRA_HIGH_THRESHOLD * 60 /\ low_variance
        THEN Verdict(TRUE, "ULTRA_HIGH", overall, c.minimum, variance,
                     "Ultra-high consensus")
        ELSE IF overall >= HIGH_THRESHOLD * 60 /\ low_variance
        THEN Verdict(TRUE, "HIGH", overall, c.minimum, variance,
                     "High consensus")
        ELSE IF overall >= MEDIUM_THRESHOLD * 60 /\ low_variance
        THEN Verdict(TRUE, "MEDIUM", overall, c.minimum, variance,
                     "Medium consensus")
        ELSE Verdict(FALSE, "REJECTED", overall, c.minimum, variance,
                     "Insufficient consensus")

validate_recognition_with_consensus(sims) ==
    IF DOMAIN sims = {}
    THEN [accept |-> FALSE, reason |-> "No similarity metrics calculated",
          confidence_level |-> "ERROR"]
    ELSE
    LET values   == similarity_values(sims)
        overall  == overall_similarity(values)
        variance == similarity_variance(values)
        c        == ThresholdCounts(values)
        consensus_achieved == c.minimum >= MIN_CONSENSUS_COUNT
        low_variance       == variance < MAX_VARIANCE * 360000
    IN  IF /\ c.ultra_high >= 3
           /\ overall >= ULTRA_HIGH_THRESHOLD * 60
           /\ consensus_achieved /\ low_variance
        THEN Verdict(TRUE, "ULTRA_HIGH", overall, c.minimum, variance,
                     "Ultra-high consensus")
        ELSE IF /\ c.high >= 3
                /\ overall >= HIGH_THRESHOLD * 60
                /\ consensus_achieved /\ low_variance
        THEN Verdict(TRUE, "HIGH", overall, c.minimum, variance,
                     "High consensus")
        ELSE IF /\ c.medium >= 4
                /\ overall >= MEDIUM_THRESHOLD * 60
                /\ consensus_achieved /\ low_variance
        THEN Verdict(TRUE, "MEDIUM", overall, c.minimum, variance,
                     "Medium consensus")
        ELSE Verdict(FALSE, "REJECTED", overall, c.minimum, variance,
                     "Insufficient consensus")

\* The validator's variables before any call.
NoCounts == [ultra_high |-> 0, high |-> 0, medium |-> 0, minimum |-> 0]

NoValidation == [accept |-> FALSE, confidence_level |-> "NONE"]

(***************************************************************************)
(* Python values.  None is a value of its own; a dict keeps its keys in    *)
(* insertion order, so it is a sequence of entries with distinct keys.     *)
(***************************************************************************)
None == [none |-> TRUE]

Keys(d) == {d[i].key : i \in 1..Len(d)}

\* a mutation of Put: a value stored for a key that is there already is
\* merged into the old value, which keeps the fields it has
PutMerging(d, k, v) ==
    IF \E i \in 1..Len(d) : d[i].key = k
    THEN [i \in 1..Len(d) |->
             IF d[i].key = k
             THEN [key |-> k,
                   value |-> [f \in DOMAIN d[i].value \cup DOMAIN v |->
                                 IF f \in DOMAIN d[i].value THEN d[i].value[f] ELSE v[f]]]
             ELSE d[i]]
    ELSE Append(d, [key |-> k, value |-> v])

\* d[k] = v: an existing key keeps its place, a new key goes last.
Put(d, k, v) ==
    IF k \in Keys(d)
    THEN [i \in 1..Len(d) |-> IF d[i].key = k THEN [key |-> k, value |-> v]
                                               ELSE d[i]]
    ELSE Append(d, [key |-> k, value |-> v])

(***************************************************************************)
(* calculate_multi_metric_similarity.  A family vector is a sequence of    *)
(* non-negative integers; each metric is rounded down to hundredths.       *)
(***************************************************************************)
RECURSIVE SqrtIn(_, _, _)
SqrtIn(x, lo, hi) ==
    IF lo = hi THEN lo
    ELSE LET mid == (lo + hi + 1) \div 2
         IN  IF mid * mid <= x THEN SqrtIn(x, mid, hi) ELSE SqrtIn(x, lo, mid - 1)

\* the integer part of the square root of x
isqrt(x) == SqrtIn(x, 0, x)

Dot(f1, f2) == SeqSum([i \in 1..Len(f1) |-> f1[i] * f2[i]])

\* np.dot(f1, f2) of the normalised vectors
cosine_sim(f1, f2) ==
    LET n1 == Dot(f1, f1)
        n2 == Dot(f2, f2)
        d  == Dot(f1, f2)
    IN  IF n1 = 0 \/ n2 = 0 THEN 0
        ELSE isqrt((10000 * d * d) \div (n1 * n2))

\* 1 / (1 + |f1 - f2|) of the normalised vectors; |f1 - f2|^2 = 2 - 2 cos.
\* A zero vector stays zero when normalised: its distance to a unit vector
\* is 1 and to another zero vector 0.
euclidean_sim(f1, f2) ==
    LET n1 == Dot(f1, f1)
        n2 == Dot(f2, f2)
    IN  IF n1 = 0 /\ n2 = 0 THEN 100
        ELSE IF n1 = 0 \/ n2 = 0 THEN 50
        ELSE 10000 \div (100 + isqrt(20000 - 200 * cosine_sim(f1, f2)))

\* (np.corrcoef(f1, f2)[0, 1] + 1) / 2, with 0.0 for the coefficient when
\* the vector has one element or the coefficient is NaN (a constant vector).
correlation_sim(f1, f2) ==
    LET n   == Len(f1)
        num == n * Dot(f1, f2) - SeqSum(f1) * SeqSum(f2)
        d1  == n * Dot(f1, f1) - SeqSum(f1) * SeqSum(f1)
        d2  == n * Dot(f2, f2) - SeqSum(f2) * SeqSum(f2)
        q   == (2500 * num * num) \div (d1 * d2)
        r   == isqrt(q)
        exact == (2500 * num * num) % (d1 * d2) = 0 /\ r * r = q
    IN  IF n <= 1 \/ d1 = 0 \/ d2 = 0 THEN 50
        ELSE IF num >= 0 THEN 50 + r
        ELSE IF exact THEN 50 - r
        ELSE 50 - r - 1

Max3(a, b, c) ==
    IF a >= b /\ a >= c THEN a ELSE IF b >= c THEN b ELSE c

\* The families of both bundles are compared in FamilyOrder; a family that
\* one bundle lacks is skipped; vectors of different lengths make np.dot
\* raise, and the except clause returns the empty dict.
calculate_multi_metric_similarity(features1, features2) ==
    LET common == {f \in Families : f \in DOMAIN features1 /\ f \in DOMAIN features2}
    IN  IF \E f \in common : Len(features1[f]) # Len(features2[f])
        THEN << >>
        ELSE [f \in common |->
                 Max3(cosine_sim(features1[f], features2[f]),
                      euclidean_sim(features1[f], features2[f]),
                      correlation_sim(features1[f], features2[f]))]

(***************************************************************************)
(* Images.  An image is known by the picture it shows; the extractor turns  *)
(* it into its bundle of five family vectors, or into None when it cannot  *)
(* process it.                                                             *)
(***************************************************************************)
Pictures == {"A", "B", "C", "D"}

Image(picture) == [picture |-> picture]

\* An image on which calculate_lbp raises in its loop.
FaultyImage(picture) == [picture |-> picture, lbp_raises |-> TRUE]

LbpRaises(image) == "lbp_raises" \in DOMAIN image /\ image.lbp_raises

\* np.histogram of np.zeros_like(image): every pixel falls into the first bin
ZeroLbpHistogram == <<1, 0, 0>>

\* calculate_lbp and the histogram taken of what it returns: when the loop
\* raises, the except clause returns np.zeros_like(image) and the caller
\* goes on with the histogram of that.
calculate_lbp(image, lbp_hist) ==
    IF LbpRaises(image) THEN ZeroLbpHistogram ELSE lbp_hist

\* The five families of a picture when no descriptor raises.
FamiliesOf(image) ==
    CASE image.picture = "A" ->
           [lbp |-> <<0, 1, 3>>, gradient |-> <<3, 2, 1>>, regional |-> <<1, 2, 1>>,
            gabor |-> <<3, 2, 3>>, edges |-> <<3, 2, 1>>]
      [] image.picture = "B" ->
           [lbp |-> <<1, 1, 3>>, gradient |-> <<3, 2, 1>>, regional |-> <<4, 3, 2>>,
            gabor |-> <<3, 1, 1>>, edges |-> <<1, 3, 1>>]
      [] image.picture = "C" ->
           [lbp |-> <<1, 2, 3>>, gradient |-> <<1, 3, 1>>, regional |-> <<1, 3, 2>>,
            gabor |-> <<1, 2, 1>>, edges |-> <<0, 1, 3>>]
      [] image.picture = "D" ->
           [lbp |-> <<1, 2, 1>>, gradient |-> <<1, 3, 1>>, regional |-> <<3, 1, 1>>,
            gabor |-> <<0, 1, 3>>, edges |-> <<3, 1, 1>>]
      [] image.picture = "E" ->
           [lbp |-> <<0, 1, 1>>, gradient |-> <<0, 1, 1>>, regional |-> <<0, 1, 1>>,
            gabor |-> <<0, 1, 2>>, edges |-> <<0, 1, 2>>]
      [] image.picture = "F" ->
           [lbp |-> <<1, 1, 4>>, gradient |-> <<1, 4, 1>>, regional |-> <<1, 1, 4>>,
            gabor |-> <<0, 1, 2>>, edges |-> <<0, 1, 2>>]
      [] image.picture = "G" ->
           [lbp |-> <<1, 1, 2>>, gradient |-> <<1, 2, 1>>, regional |-> <<1, 1, 2>>,
            gabor |-> <<0, 4, 3>>, edges |-> <<0, 4, 3>>]
      [] OTHER -> None

extract_ultra_robust_features(image) ==
    IF FamiliesOf(image) = None THEN None
    ELSE [FamiliesOf(image) EXCEPT !.lbp = calculate_lbp(image, @)]

\* What a caller can hand to recognize_face_from_image.
ProbeImages == {Image(p) : p \in Pictures \cup {"unreadable"}}

\* requests.get on a photo URL: a URL is known by the picture behind it; a
\* URL that cannot be fetched or decoded yields None.
PhotoUrls == Pictures \cup {"unreadable", "unreachable"}

\* The URLs of photos on which calculate_lbp raises.
FaultyPhotoUrls == {"A-faulty"}

\* Three more pictures: E, and two that resemble E in different ways, F in
\* two families exactly and G in all five closely.
TierPictures == {"E", "F", "G"}

download_image_from_url(url) ==
    IF url \in Pictures \cup TierPictures \cup {"unreadable"} THEN Image(url)
    ELSE IF url \in FaultyPhotoUrls THEN FaultyImage("A")
    ELSE None

StudentIds == {"1", "2"}

(***************************************************************************)
(* The files.  A JSON file is absent, unparsable, or holds a dict.         *)
(***************************************************************************)
Absent == [state |-> "absent"]

Corrupt == [state |-> "corrupt"]

Json(data) == [state |-> "json", data |-> data]

\* A student id is a Python str or a Python int; the int n is written
\* "int:n" here to tell it from the str "n".  json.dump writes every key
\* of an object as a string.
JsonKey(k) ==
    CASE k = "int:1" -> "1"
      [] k = "int:2" -> "2"
      [] OTHER -> k

\* The members of a JSON object as json.dump writes them, in dict order.
JsonObject(d) ==
    [i \in 1..Len(d) |-> [key |-> JsonKey(d[i].key), value |-> d[i].value]]

\* The dict json.load builds from the members of an object: of members
\* with one key the first gives the position and the last the value.
RECURSIVE FromMembers(_, _, _)
FromMembers(members, i, d) ==
    IF i > Len(members) THEN d
    ELSE FromMembers(members, i + 1, Put(d, members[i].key, members[i].value))

\* json.dump of the encodings (tolist per family) and json.load back into
\* arrays: the order, the families and every vector element are kept, the
\* keys come back as strings.
save_face_encodings(encodings) == Json(JsonObject(encodings))

load_face_encodings(file) ==
    IF file.state = "json" THEN FromMembers(file.data, 1, << >>) ELSE << >>

save_face_data(data) == Json(JsonObject(data))

load_face_data(file) ==
    IF file.state = "json" THEN FromMembers(file.data, 1, << >>) ELSE << >>

\* f"temp_ultra_{student_id}.jpg" and f"ultra_student_{student_id}.jpg":
\* an int is formatted as its digits, like the key json.dump writes.
TempEnroll(student_id) == <<"temp_ultra", JsonKey(student_id)>>

FaceImage(student_id) == <<"ultra_student", JsonKey(student_id)>>

TempRecognition == <<"temp_ultra_recognition">>

FeatureTypes(features) == SelectSeq(FamilyOrder, LAMBDA f : f \in DOMAIN features)

TotalFeatures(features) ==
    SeqSum([i \in 1..Len(FeatureTypes(features)) |->
               Len(features[FeatureTypes(features)[i]])])

FaceData(student_id, photo_url, features) ==
    [face_path      |-> FaceImage(student_id),
     photo_url      |-> photo_url,
     feature_types  |-> FeatureTypes(features),
     total_features |-> TotalFeatures(features)]

(***************************************************************************)
(* Profiles written by earlier releases of the extractor, still in the     *)
(* encodings file when the recognizer starts: bundles with fewer families  *)
(* and bundles whose vectors have another length.                          *)
(***************************************************************************)
Restrict(features, families) == [f \in families |-> features[f]]

PersistedProfiles ==
    { [features  |-> Restrict(extract_ultra_robust_features(Image("B")),
                              {"lbp", "gradient", "regional"}),
       photo_url |-> "B"],
      [features  |-> Restrict(extract_ultra_robust_features(Image("B")),
                              {"lbp", "gradient"}),
       photo_url |-> "B"],
      [features  |-> [lbp |-> <<1, 3>>, gradient |-> <<3, 1>>, regional |-> <<1, 2>>,
                      gabor |-> <<3, 2>>, edges |-> <<3, 2>>],
       photo_url |-> "A"] }

\* What an earlier run left behind: for up to two students, in either
\* order, a profile each.
Snapshots ==
    { << >> }
    \cup { << [key |-> k, value |-> p] >> : k \in StudentIds, p \in PersistedProfiles }
    \cup { << [key |-> k1, value |-> p1], [key |-> k2, value |-> p2] >> :
             <<k1, k2, p1, p2>> \in
                 { x \in StudentIds \X StudentIds \X PersistedProfiles \X PersistedProfiles :
                     x[1] # x[2] } }

EncodingsOf(snapshot) ==
    [i \in 1..Len(snapshot) |->
        [key |-> snapshot[i].key, value |-> snapshot[i].value.features]]

DataOf(snapshot) ==
    [i \in 1..Len(snapshot) |->
        [key   |-> snapshot[i].key,
         value |-> FaceData(snapshot[i].key, snapshot[i].value.photo_url,
                            snapshot[i].value.features)]]

(***************************************************************************)
(* recognize_face_from_image                                               *)
(***************************************************************************)
\* The loop's all_results, one entry per stored profile in dict order.
all_results(uploaded_features, encodings) ==
    [i \in 1..Len(encodings) |->
        LET sims == calculate_multi_metric_similarity(uploaded_features,
                                                      encodings[i].value)
            v    == validate_recognition_with_consensus(sims)
        IN  [student_id         |-> encodings[i].key,
             similarities       |-> sims,
             validation         |-> v,
             overall_similarity |-> IF "overall_similarity" \in DOMAIN v
                                    THEN v.overall_similarity ELSE 0]]

\* a mutation of BestAccepted: among the accepted candidates with the
\* highest score the first one wins, but the last one when the call before
\* returned a match
BestAcceptedAfterMatch(results, i, best) ==
    LET accepted == {k \in 1..Len(results) : results[k].validation.accept}
        top == {k \in accepted : \A j \in accepted :
                   results[k].validation.overall_similarity
                       >= results[j].validation.overall_similarity}
    IN  IF accepted = {} THEN 0
        ELSE IF call.name = "recognize_face_from_image" /\ result.match_found
        THEN CHOOSE k \in top : \A j \in top : k >= j
        ELSE CHOOSE k \in top : \A j \in top : k <= j

\* The loop's best_match, as a position in all_results (0 for None): an
\* accepted candidate replaces the best so far only with a strictly higher
\* overall_similarity.
RECURSIVE BestAccepted(_, _, _)
BestAccepted(results, i, best) ==
    IF i > Len(results) THEN best
    ELSE IF /\ results[i].validation.accept
            /\ \/ best = 0
               \/ results[i].validation.overall_similarity
                      > results[best].validation.overall_similarity
         THEN BestAccepted(results, i + 1, i)
         ELSE BestAccepted(results, i + 1, best)

\* max(all_results.items(), key = overall_similarity): the first of the
\* entries with the highest value.
BestRejected(results) ==
    CHOOSE i \in 1..Len(results) :
        /\ \A j \in 1..Len(results) :
               results[i].overall_similarity >= results[j].overall_similarity
        /\ \A j \in 1..(i - 1) :
               results[j].overall_similarity < results[i].overall_similarity

NoValidationReason == "No student passed ultra-robust validation"

ExtractionReason == "Could not extract features from uploaded image"

KeyErrorReason == "Error during recognition: 'overall_similarity'"

\* result['validation']['overall_similarity'] for every entry: the dict the
\* validator returns for an empty similarities dict has no such key.
AllSimilaritiesRaises(results) ==
    \E i \in 1..Len(results) :
        "overall_similarity" \notin DOMAIN results[i].validation

AllSimilarities(results) ==
    [i \in 1..Len(results) |->
        [key   |-> results[i].student_id,
         value |-> results[i].validation.overall_similarity]]

recognize_face_from_image(image, encodings) ==
    LET uploaded_features == extract_ultra_robust_features(image)
        results == all_results(uploaded_features, encodings)
        best    == BestAccepted(results, 1, 0)
    IN  IF uploaded_features = None
        THEN [match_found |-> FALSE, reason |-> ExtractionReason]
        ELSE IF AllSimilaritiesRaises(results)
        THEN [match_found |-> FALSE, reason |-> KeyErrorReason]
        ELSE IF best # 0 /\ results[best].student_id # ""
                /\ results[best].validation.accept
        THEN [match_found        |-> TRUE,
              student_id         |-> results[best].student_id,
              confidence         |-> results[best].validation.overall_similarity,
              confidence_level   |-> results[best].validation.confidence_level,
              validation_details |-> results[best].validation,
              all_similarities   |-> AllSimilarities(results)]
        ELSE [match_found         |-> FALSE,
              reason              |-> NoValidationReason,
              best_rejected_match |->
                  IF Len(results) = 0 THEN None
                  ELSE [student_id |-> results[BestRejected(results)].student_id,
                        confidence |-> results[BestRejected(results)].overall_similarity,
                        validation |-> results[BestRejected(results)].validation],
              all_similarities    |-> AllSimilarities(results)]

(***************************************************************************)
(* backend/secure_face_recognition.py: the recognizer that locates the     *)
(* face, passes the crop through a quality gate, extracts one feature      *)
(* vector and compares it with every stored vector on four metrics.  The   *)
(* ensemble score is kept in units of 1/10000; the feature vectors used    *)
(* are chosen so that rounding each metric down to hundredths changes no   *)
(* comparison of validate_recognition_result.                              *)
(***************************************************************************)
HIGH_CONFIDENCE_THRESHOLD == 85
MEDIUM_CONFIDENCE_THRESHOLD == 75
SECURE_MINIMUM_THRESHOLD == 65
FACE_QUALITY_THRESHOLD == 70
MIN_FACE_SIZE == 50

Min2(a, b) == IF a <= b THEN a ELSE b

Max2(a, b) == IF a >= b THEN a ELSE b

\* A face as the cascade reports it, with what the crop around it measures.
Face(w, h, laplacian_var, brightness, contrast, picture) ==
    [x |-> 50, y |-> 50, w |-> w, h |-> h, laplacian_var |-> laplacian_var,
     brightness |-> brightness, contrast |-> contrast, picture |-> picture]

Photo(faces) == [decodable |-> TRUE, width |-> 200, height |-> 200, faces |-> faces]

SecurePictures == {"A", "B", "C", "D"}

\* The images a request can carry: an array cvtColor cannot convert, a
\* scene without a face, faces that are too small, blurred, dark, glaring
\* or flat, clear faces, and two faces of which the larger one is blurred.
SecureImages ==
    { [decodable |-> FALSE],
      Photo(<< >>),
      Photo(<<Face(40, 40, 150, 120, 40, "A")>>),
      Photo(<<Face(100, 100, 50, 120, 40, "A")>>),
      Photo(<<Face(100, 100, 150, 20, 40, "A")>>),
      Photo(<<Face(100, 100, 150, 240, 40, "A")>>),
      Photo(<<Face(100, 100, 150, 120, 10, "A")>>),
      Photo(<<Face(60, 60, 150, 120, 40, "A"), Face(100, 100, 50, 120, 40, "B")>>) }
    \cup { Photo(<<Face(100, 100, 150, 120, 40, p)>>) : p \in SecurePictures }

\* max(faces, key = w * h): the first of the faces with the largest area
LargestFace(faces) ==
    CHOOSE i \in 1..Len(faces) :
        /\ \A j \in 1..Len(faces) : faces[i].w * faces[i].h >= faces[j].w * faces[j].h
        /\ \A j \in 1..(i - 1) : faces[j].w * faces[j].h < faces[i].w * faces[i].h

\* gray[y:y+h, x:x+w] around the largest face, padded by a tenth of its
\* shorter side and clipped to the image
crop_face(image) ==
    LET face    == image.faces[LargestFace(image.faces)]
        padding == Min2(face.w, face.h) \div 10
        x       == Max2(0, face.x - padding)
        y       == Max2(0, face.y - padding)
    IN  [x |-> x, y |-> y,
         w |-> Min2(image.width - x, face.w + 2 * padding),
         h |-> Min2(image.height - y, face.h + 2 * padding),
         laplacian_var |-> face.laplacian_var, brightness |-> face.brightness,
         contrast |-> face.contrast, picture |-> face.picture]

Quality(is_valid, message) == [is_valid |-> is_valid, message |-> message]

\* validate_face_quality as it would be if the two floors had to be
\* exceeded: a crop exactly on the blur floor or the contrast floor fails.
validate_face_quality_exceeding(face_img) ==
    IF face_img = None THEN Quality(FALSE, "Empty or invalid image")
    ELSE IF face_img.h * face_img.w = 0 THEN Quality(FALSE, "Empty or invalid image")
    ELSE IF face_img.h < MIN_FACE_SIZE \/ face_img.w < MIN_FACE_SIZE
    THEN Quality(FALSE, "Face too small")
    ELSE IF face_img.laplacian_var <= 100 THEN Quality(FALSE, "Image too blurry")
    ELSE IF face_img.brightness < 30 \/ face_img.brightness > 230
    THEN Quality(FALSE, "Poor lighting")
    ELSE IF face_img.contrast <= 20 THEN Quality(FALSE, "Low contrast")
    ELSE Quality(TRUE, "Face quality acceptable")

\* The checks in the order of the code; the quality score
\* laplacian_var / 100 * 0.6 + contrast / 50 * 0.4 is compared in thousandths.
validate_face_quality(face_img) ==
    IF face_img = None THEN Quality(FALSE, "Empty or invalid image")
    ELSE IF face_img.h * face_img.w = 0 THEN Quality(FALSE, "Empty or invalid image")
    ELSE IF face_img.h < MIN_FACE_SIZE \/ face_img.w < MIN_FACE_SIZE
    THEN Quality(FALSE, "Face too small")
    ELSE IF face_img.laplacian_var < 100 THEN Quality(FALSE, "Image too blurry")
    ELSE IF face_img.brightness < 30 \/ face_img.brightness > 230
    THEN Quality(FALSE, "Poor lighting")
    ELSE IF face_img.contrast < 20 THEN Quality(FALSE, "Low contrast")
    ELSE IF Min2(1000, 6 * face_img.laplacian_var + 8 * face_img.contrast)
                < 10 * FACE_QUALITY_THRESHOLD
    THEN Quality(FALSE, "Overall quality too low")
    ELSE Quality(TRUE, "Face quality acceptable")

\* np.array(features)
Array(values) == [array |-> values]

\* extract_enhanced_features as it would be without the quality check at
\* its head.
extract_features_unchecked(face_img) ==
    CASE face_img.picture = "A" -> Array(<<1, 2, 3>>)
      [] face_img.picture = "B" -> Array(<<0, 1, 4>>)
      [] face_img.picture = "C" -> Array(<<0, 0, 1>>)
      [] face_img.picture = "D" -> Array(<<0, 1, 0>>)

\* The feature vector the extractor computes from an acceptable crop.
extract_enhanced_features(face_img) ==
    IF ~validate_face_quality(face_img).is_valid THEN None
    ELSE CASE face_img.picture = "A" -> Array(<<1, 2, 3>>)
           [] face_img.picture = "B" -> Array(<<0, 1, 4>>)
           [] face_img.picture = "C" -> Array(<<0, 0, 1>>)
           [] face_img.picture = "D" -> Array(<<0, 1, 0>>)

\* features / np.linalg.norm(features), in thousandths
Normalised(f) ==
    LET n == Dot(f, f)
    IN  [i \in 1..Len(f) |-> IF n = 0 THEN 0
                             ELSE SqrtIn((1000000 * f[i] * f[i]) \div n, 0, 1000)]

\* 1 / (1 + sum((f1 - f2)^2 / (f1 + f2))) of the normalised vectors
chi_square_sim(f1, f2) ==
    LET a == Normalised(f1)
        b == Normalised(f2)
        chi_square == SeqSum([i \in 1..Len(a) |->
                         IF a[i] + b[i] = 0 THEN 0
                         ELSE ((a[i] - b[i]) * (a[i] - b[i])) \div (a[i] + b[i])])
    IN  100000 \div (1000 + chi_square)

SecureMetrics == {"cosine", "euclidean", "correlation", "chi_square"}

\* Vectors of different lengths make np.dot raise; the except clause
\* returns 0.0 for every metric.
secure_multi_metric_similarity(features1, features2) ==
    IF Len(features1.array) # Len(features2.array) THEN [m \in SecureMetrics |-> 0]
    ELSE [cosine      |-> cosine_sim(features1.array, features2.array),
          euclidean   |-> euclidean_sim(features1.array, features2.array),
          correlation |-> correlation_sim(features1.array, features2.array),
          chi_square  |-> chi_square_sim(features1.array, features2.array)]

validate_recognition_result(sims, student_id) ==
    LET ensemble_score == 30 * sims.cosine + 25 * sims.euclidean
                              + 25 * sims.correlation + 20 * sims.chi_square
        values == {sims[m] : m \in SecureMetrics}
        highest == CHOOSE v \in values : \A u \in values : v >= u
        lowest  == CHOOSE v \in values : \A u \in values : v <= u
        checks == [high_confidence    |-> ensemble_score >= 100 * HIGH_CONFIDENCE_THRESHOLD,
                   medium_confidence  |-> ensemble_score >= 100 * MEDIUM_CONFIDENCE_THRESHOLD,
                   minimum_threshold  |-> ensemble_score >= 100 * SECURE_MINIMUM_THRESHOLD,
                   cosine_check       |-> sims.cosine >= 70,
                   correlation_check  |-> sims.correlation >= 60,
                   consistent_metrics |-> highest - lowest < 40]
        confidence_level ==
            IF checks.high_confidence /\ checks.cosine_check /\ checks.correlation_check
            THEN "HIGH"
            ELSE IF checks.medium_confidence /\ checks.consistent_metrics THEN "MEDIUM"
            ELSE IF checks.minimum_threshold THEN "LOW"
            ELSE "REJECTED"
    IN  [student_id       |-> student_id,
         ensemble_score   |-> ensemble_score,
         confidence_level |-> confidence_level,
         accept_match     |-> confidence_level \in {"HIGH", "MEDIUM"},
         similarities     |-> sims,
         security_checks  |-> checks]

\* The feature vectors the extractor can return.
SecureVectors ==
    {extract_enhanced_features(Face(100, 100, 150, 120, 40, p)) : p \in SecurePictures}

\* calculate_multi_metric_similarity for every two of them, computed once
SimilaritiesOf ==
    [f1 \in SecureVectors, f2 \in SecureVectors |-> secure_multi_metric_similarity(f1, f2)]

\* all_results of the comparison loop, one entry per stored vector in dict
\* order
secure_all_results(features, store) ==
    [i \in 1..Len(store) |->
        validate_recognition_result(SimilaritiesOf[features, store[i].value], store[i].key)]

\* best_result of the loop, as a position in all_results (0 for None)
RECURSIVE SecureBest(_, _, _)
SecureBest(results, i, best) ==
    IF i > Len(results) THEN best
    ELSE IF /\ results[i].accept_match
            /\ \/ best = 0
               \/ results[i].ensemble_score > results[best].ensemble_score
         THEN SecureBest(results, i + 1, i)
         ELSE SecureBest(results, i + 1, best)

\* max(all_results, key = ensemble_score)
SecureBestRejected(results) ==
    CHOOSE i \in 1..Len(results) :
        /\ \A j \in 1..Len(results) : results[i].ensemble_score >= results[j].ensemble_score
        /\ \A j \in 1..(i - 1) : results[j].ensemble_score < results[i].ensemble_score

Rejection(reason, confidence_level) ==
    [match_found |-> FALSE, reason |-> reason, confidence_level |-> confidence_level]

\* The dict of the last if / else of recognize_face_from_image.
secure_decision(results, best) ==
    IF best # None /\ best.accept_match
    THEN [match_found      |-> TRUE,
          student_id       |-> best.student_id,
          confidence_level |-> best.confidence_level,
          ensemble_score   |-> best.ensemble_score,
          similarities     |-> best.similarities,
          security_checks  |-> best.security_checks]
    ELSE [match_found |-> FALSE,
          reason      |-> "No student meets security validation requirements",
          confidence_level |-> "REJECTED",
          best_rejected_match |->
              IF Len(results) = 0 THEN None
              ELSE [student_id       |-> results[SecureBestRejected(results)].student_id,
                    ensemble_score   |-> results[SecureBestRejected(results)].ensemble_score,
                    confidence_level |-> results[SecureBestRejected(results)].confidence_level]]

\* No request has been made of the secure recognizer and nobody is enrolled.
SecureIdle ==
    /\ stage = "IDLE"
    /\ request = None
    /\ uploaded_face = None
    /\ secure_features = None
    /\ secure_results = << >>
    /\ best_result = None
    /\ response = None
    /\ face_features = << >>
    /\ secure_face_data = << >>

(***************************************************************************)
(* The request threads of the server (Flask serves every request on a      *)
(* thread of its own).                                                     *)
(***************************************************************************)
Threads == {1, 2}

IdleThread == [pc |-> "idle", calls |-> 0]

TempPaths == {TempRecognition} \cup {TempEnroll(id) : id \in StudentIds}

\* No request is being served and no temporary file holds an image.
ThreadsIdle ==
    /\ threads = [t \in Threads |-> IdleThread]
    /\ temp_content = [path \in TempPaths |-> None]

(***************************************************************************)
(* backend/robust_face_recognition.py: the enhanced recognizer, which      *)
(* locates the largest face, extracts one vector of histograms from its    *)
(* crop and compares it with every stored vector by one combined score.    *)
(* A histogram value is kept in tenths and the combined score              *)
(* 0.4 cosine + 0.3 euclidean + 0.3 correlation in units of 1/10000.       *)
(***************************************************************************)
EnhancedPictures == {"A", "B", "C", "D"}

\* The images a caller can hand over: an array cvtColor cannot convert, a
\* scene without a face, and a clear face of each picture.
EnhancedImages ==
    { [decodable |-> FALSE], Photo(<< >>) }
    \cup { Photo(<<Face(100, 100, 150, 120, 40, p)>>) : p \in EnhancedPictures }

EnhancedUrls == EnhancedPictures \cup {"noface", "unreachable"}

\* requests.get and Image.open: None when the URL cannot be fetched.
enhanced_download_image_from_url(url) ==
    IF url \in EnhancedPictures THEN Photo(<<Face(100, 100, 150, 120, 40, url)>>)
    ELSE IF url = "noface" THEN Photo(<< >>)
    ELSE None

\* cv2.resize raises on an empty crop and the except clause returns None.
extract_face_features(face_img) ==
    IF face_img.w * face_img.h = 0 THEN None
    ELSE CASE face_img.picture = "A" -> Array(<<5, 3, 2>>)
           [] face_img.picture = "B" -> Array(<<4, 4, 2>>)
           [] face_img.picture = "C" -> Array(<<1, 2, 7>>)
           [] face_img.picture = "D" -> Array(<<2, 7, 1>>)

\* Vectors of different lengths make np.dot raise: 0.0 from the except
\* clause.  A zero norm gives 0.0, a NaN correlation counts as 0.
calculate_feature_similarity(features1, features2) ==
    LET f1  == features1.array
        f2  == features2.array
        n   == Len(f1)
        n1  == Dot(f1, f1)
        n2  == Dot(f2, f2)
        d   == Dot(f1, f2)
        squared_distance ==
            SeqSum([i \in 1..Len(f1) |-> (f1[i] - f2[i]) * (f1[i] - f2[i])])
        num == n * d - SeqSum(f1) * SeqSum(f2)
        d1  == n * n1 - SeqSum(f1) * SeqSum(f1)
        d2  == n * n2 - SeqSum(f2) * SeqSum(f2)
        cosine      == Min2(1000, (100000 * d) \div SqrtIn(10000 * n1 * n2, 0, 10000))
        euclidean   == 1000000 \div (1000 + SqrtIn(10000 * squared_distance, 0, 10000))
        magnitude   == IF num >= 0 THEN num ELSE 0 - num
        root        == Min2(1000, (100000 * magnitude) \div SqrtIn(10000 * d1 * d2, 0, 10000))
        correlation == IF d1 = 0 \/ d2 = 0 THEN 0
                       ELSE IF num >= 0 THEN root ELSE 0 - root
    IN  IF Len(f1) # Len(f2) THEN 0
        ELSE IF n1 = 0 \/ n2 = 0 THEN 0
        ELSE Max2(0, Min2(10000, 4 * cosine + 3 * euclidean + 3 * correlation))

\* The comparison loop of recognize_face_from_image over the entries from
\* position i on: the entry that is strictly better than every earlier one
\* and than the threshold becomes the best match.
RECURSIVE EnhancedBest(_, _, _, _, _)
EnhancedBest(uploaded_features, store, threshold, i, best) ==
    IF i > Len(store) THEN best
    ELSE LET similarity == calculate_feature_similarity(uploaded_features, store[i].value)
             best_similarity == IF best = None THEN 0 ELSE best.similarity
         IN  IF similarity > best_similarity /\ similarity > threshold
             THEN EnhancedBest(uploaded_features, store, threshold, i + 1,
                               [student_id |-> store[i].key,
                                confidence |-> 100 * similarity,
                                similarity |-> similarity])
             ELSE EnhancedBest(uploaded_features, store, threshold, i + 1, best)

\* threshold: float = 0.5
DEFAULT_THRESHOLD == 5000

\* The body of recognize_face_from_image; cvtColor raises on an array it
\* cannot convert and the except clause returns None.
enhanced_recognize_face_from_image(image, store) ==
    IF ~image.decodable THEN None
    ELSE IF Len(image.faces) = 0 THEN None
    ELSE IF extract_face_features(crop_face(image)) = None THEN None
    ELSE EnhancedBest(extract_face_features(crop_face(image)), store,
                      DEFAULT_THRESHOLD, 1, None)

EnhancedFaceImage(student_id) == <<"student", student_id>>

\* json.dump of {k: v.tolist()} and json.load back into np.array(v)
save_face_features(features) ==
    Json([i \in 1..Len(features) |->
             [key |-> features[i].key, value |-> features[i].value.array]])

load_face_features(file) ==
    IF file.state = "json"
    THEN [i \in 1..Len(file.data) |->
             [key |-> file.data[i].key, value |-> Array(file.data[i].value)]]
    ELSE << >>

(***************************************************************************)
(* professional_attendance_api.py: POST /mark-attendance.  The handler is  *)
(* a coroutine of the server's one event loop: it can be suspended at its  *)
(* only await, the read of the uploaded file, and runs from there to its   *)
(* return without another request's code in between.  Distances are in     *)
(* hundredths, confidences in percent.                                     *)
(***************************************************************************)
\* What is uploaded: a picture of a face, a picture without a face, or
\* bytes that are no image.
Uploads == {"P", "P-near", "P-turned", "Q", "blank", "not-an-image"}

\* extract_face_encoding of the professional recognizer
extract_face_encoding(image) ==
    CASE image.picture = "P"        -> Array(<<4, 1, 1>>)
      [] image.picture = "P-near"   -> Array(<<4, 1, 2>>)
      [] image.picture = "P-turned" -> Array(<<3, 2, 2>>)
      [] image.picture = "Q"        -> Array(<<1, 4, 1>>)
      [] OTHER                      -> None

\* the Euclidean distance of the normalised encodings, 1.0 for a zero one
calculate_face_distance(encoding1, encoding2) ==
    IF Dot(encoding1.array, encoding1.array) = 0
           \/ Dot(encoding2.array, encoding2.array) = 0
    THEN 100
    ELSE Min2(isqrt(20000 - 200 * cosine_sim(encoding1.array, encoding2.array)),
              200)

FACE_RECOGNITION_TOLERANCE == 60

\* self.face_encodings of the professional recognizer after startup
ProfessionalEncodings ==
    <<[key |-> "1", value |-> extract_face_encoding(Image("P"))],
      [key |-> "2", value |-> extract_face_encoding(Image("Q"))]>>

\* recognize_face_from_image of the professional recognizer: the stored
\* encoding at the strictly smallest distance, matched within the tolerance
professional_recognize_face_from_image(image, encodings) ==
    LET uploaded_encoding == extract_face_encoding(image)
        distance(i) == calculate_face_distance(uploaded_encoding,
                                               encodings[i].value)
        best == CHOOSE i \in 1..Len(encodings) :
                    /\ \A j \in 1..Len(encodings) : distance(i) <= distance(j)
                    /\ \A j \in 1..(i - 1) : distance(j) > distance(i)
    IN  IF uploaded_encoding = None
        THEN [match_found |-> FALSE, confidence |-> 0]
        ELSE IF Len(encodings) = 0
        THEN [match_found |-> FALSE, confidence |-> 0]
        ELSE IF distance(best) <= FACE_RECOGNITION_TOLERANCE
        THEN [match_found |-> TRUE,
              student_id  |-> encodings[best].key,
              confidence  |-> Max2(0, 100 - distance(best))]
        ELSE [match_found |-> FALSE,
              confidence  |-> Max2(0, 100 - distance(best))]

ATTENDANCE_MIN_CONFIDENCE == 70

\* SELECT attendance_id FROM attendance WHERE student_id = ? AND date = ?
existing(table, student_id, day) ==
    \E i \in 1..Len(table) :
        table[i].student_id = student_id /\ table[i].date = day

\* mark_attendance as it would be without the SELECT that looks for a
\* record of today
mark_attendance_unchecked(file, table, day, db_raises) ==
    LET recognition_result ==
            professional_recognize_face_from_image(file, ProfessionalEncodings)
        Reply(success, message) ==
            [response |-> [success |-> success, message |-> message],
             attendance |-> table]
    IN  IF file.picture = "not-an-image"
        THEN Reply(FALSE, "Attendance error")
        ELSE IF ~recognition_result.match_found
        THEN Reply(FALSE, "Face not recognized")
        ELSE IF recognition_result.student_id = ""
        THEN Reply(FALSE, "Recognized but no student ID found")
        ELSE IF recognition_result.confidence < ATTENDANCE_MIN_CONFIDENCE
        THEN Reply(FALSE, "Confidence too low for attendance")
        ELSE IF db_raises
        THEN Reply(FALSE, "Attendance error")
        ELSE [response |-> [success |-> TRUE,
                            message |-> "Attendance marked successfully",
                            attendance_id |-> Len(table) + 1],
              attendance |->
                  Append(table, [attendance_id |-> Len(table) + 1,
                                 student_id |-> recognition_result.student_id,
                                 date |-> day, status |-> "present"])]

\* The handler from the read of the upload to its return: the response and
\* the table it leaves.  An upload that does not open as an image and a
\* database call that raises both end in the outer except clause, after a
\* rollback in the second case.
mark_attendance(file, table, day, db_raises) ==
    LET recognition_result ==
            professional_recognize_face_from_image(file, ProfessionalEncodings)
        Reply(success, message) ==
            [response |-> [success |-> success, message |-> message],
             attendance |-> table]
    IN  IF file.picture = "not-an-image"
        THEN Reply(FALSE, "Attendance error")
        ELSE IF ~recognition_result.match_found
        THEN Reply(FALSE, "Face not recognized")
        ELSE IF recognition_result.student_id = ""
        THEN Reply(FALSE, "Recognized but no student ID found")
        ELSE IF recognition_result.confidence < ATTENDANCE_MIN_CONFIDENCE
        THEN Reply(FALSE, "Confidence too low for attendance")
        ELSE IF db_raises
        THEN Reply(FALSE, "Attendance error")
        ELSE IF existing(table, recognition_result.student_id, day)
        THEN Reply(FALSE, "Attendance already marked for today")
        ELSE [response |-> [success |-> TRUE,
                            message |-> "Attendance marked successfully",
                            attendance_id |-> Len(table) + 1],
              attendance |->
                  Append(table, [attendance_id |-> Len(table) + 1,
                                 student_id |-> recognition_result.student_id,
                                 date |-> day, status |-> "present"])]

RequestIds == {1, 2}

MaxRequests == 2

MaxDays == 2

\* No request has arrived, on the first day, with an empty table.
AttendanceIdle ==
    /\ attendance = << >>
    /\ today = 1
    /\ requests = [r \in RequestIds |->
                      [pc |-> "idle", file |-> None, response |-> None,
                       calls |-> 0, overlapped |-> FALSE]]

(***************************************************************************)
(* backend/face_recognition_module.py: the recognizer whose profiles live  *)
(* in the students table, with self.known_faces as its copy in memory.     *)
(* An encoding has its components in tenths, a distance is in hundredths.  *)
(***************************************************************************)
\* The rows of the students table.
DbStudentIds == {1, 2}

\* face_recognition.face_encodings of a photo or frame: the first face, or
\* None when there is none
encode_face(picture) ==
    CASE picture = "X"      -> Array(<<1, 5, 3>>)
      [] picture = "X-side" -> Array(<<2, 5, 3>>)
      [] picture = "Y"      -> Array(<<6, 1, 3>>)
      [] OTHER              -> None

\* face_recognition.face_distance: the Euclidean distance
face_distance(known, unknown) ==
    LET d == [i \in 1..Len(known.array) |-> known.array[i] - unknown.array[i]]
    IN  isqrt(100 * Dot(d, d))

DB_TOLERANCE == 60

\* compare_faces: (is_match, confidence)
compare_faces(known_encoding, unknown_encoding) ==
    LET distance == face_distance(known_encoding, unknown_encoding)
    IN  [is_match   |-> distance <= DB_TOLERANCE,
         confidence |-> 100 - distance]

\* load_student_faces: the active students that have an encoding, as the
\* query returns them
RECURSIVE load_student_faces(_, _)
load_student_faces(table, student_id) ==
    IF student_id \notin DOMAIN table THEN << >>
    ELSE IF table[student_id].is_active
            /\ table[student_id].face_encoding # None
    THEN <<[key |-> student_id, value |-> table[student_id].face_encoding]>>
             \o load_student_faces(table, student_id + 1)
    ELSE load_student_faces(table, student_id + 1)

\* The loop of recognize_student over the faces it holds: the match with
\* the strictly highest confidence above 0.0, or None.
RECURSIVE best_match(_, _, _, _)
best_match(faces, face_encoding, i, best) ==
    IF i > Len(faces) THEN best
    ELSE LET c == compare_faces(faces[i].value, face_encoding)
         IN  IF c.is_match
                    /\ c.confidence > (IF best = None THEN 0 ELSE best.confidence)
             THEN best_match(faces, face_encoding, i + 1,
                             [student_id |-> faces[i].key,
                              confidence |-> c.confidence])
             ELSE best_match(faces, face_encoding, i + 1, best)

\* Two students without an encoding, nothing loaded.
DatabaseIdle ==
    /\ students = [id \in DbStudentIds |->
                      [is_active |-> TRUE, face_encoding |-> None]]
    /\ known_faces = << >>
    /\ db_call = [name |-> "__init__"]

\* No function has been applied on its own.
OthersIdle ==
    /\ argument = None
    /\ returned = None
    /\ applied = "none"
    /\ AttendanceIdle
    /\ DatabaseIdle

\* The enhanced recognizer was constructed over an empty faces directory
\* and no call has been made on it.
EnhancedIdle ==
    /\ enhanced_face_data = << >>
    /\ enhanced_face_features = << >>
    /\ enhanced_face_data_file = Absent
    /\ enhanced_features_file = Absent
    /\ enhanced_faces_dir = {}
    /\ enhanced_call = [name |-> "__init__"]
    /\ enhanced_result = None

(***************************************************************************)
(* The recognizer: construction, enrolment, recognition.                   *)
(***************************************************************************)
ValidatorIdle ==
    /\ similarities = << >>
    /\ validation = NoValidation
    /\ prev_validation = NoValidation
    /\ prev_counts = NoCounts
    /\ relation = "idle"

\* __init__: empty maps, then load_face_data and load_face_encodings.
Init ==
    /\ ValidatorIdle
    /\ SecureIdle
    /\ ThreadsIdle
    /\ EnhancedIdle
    /\ OthersIdle
    /\ \E snapshot \in Snapshots :
        /\ encodings_file \in {Absent, Corrupt, save_face_encodings(EncodingsOf(snapshot))}
        /\ face_data_file \in {Absent, Corrupt, save_face_data(DataOf(snapshot))}
        /\ faces_dir = {FaceImage(k) : k \in Keys(snapshot)}
    /\ face_encodings = load_face_encodings(encodings_file)
    /\ face_data = load_face_data(face_data_file)
    /\ call = [name |-> "__init__"]
    /\ result = None

\* extract_and_save_face(photo_url, student_id)
Enroll(photo_url, student_id) ==
    LET image    == download_image_from_url(photo_url)
        features == extract_ultra_robust_features(image)
    IN  /\ call' = [name |-> "extract_and_save_face",
                    photo_url |-> photo_url, student_id |-> student_id]
        /\ IF image = None
           THEN /\ result' = FALSE
                /\ UNCHANGED <<face_encodings, face_data, encodings_file,
                               face_data_file, faces_dir>>
           ELSE IF features = None
           THEN /\ result' = FALSE
                /\ faces_dir' = faces_dir \cup {TempEnroll(student_id)}
                /\ UNCHANGED <<face_encodings, face_data, encodings_file,
                               face_data_file>>
           ELSE /\ face_encodings' = Put(face_encodings, student_id, features)
                /\ face_data' = Put(face_data, student_id,
                                    FaceData(student_id, photo_url, features))
                /\ encodings_file' = save_face_encodings(face_encodings')
                /\ face_data_file' = save_face_data(face_data')
                /\ faces_dir' = (faces_dir \cup {FaceImage(student_id)})
                                    \ {TempEnroll(student_id)}
                /\ result' = TRUE
        /\ UNCHANGED <<vvars, svars, tvars, evars, ovars>>

\* recognize_face_from_image as it would be if an accepted probe were learnt:
\* the accepted student's bundle is replaced by the bundle of the probe.
RecognizeAndLearn(image) ==
    LET outcome == recognize_face_from_image(image, face_encodings)
    IN  /\ call' = [name |-> "recognize_face_from_image", image |-> image]
        /\ result' = outcome
        /\ faces_dir' = IF extract_ultra_robust_features(image) = None
                        THEN faces_dir \cup {TempRecognition}
                        ELSE faces_dir \ {TempRecognition}
        /\ face_encodings' =
               IF outcome.match_found
               THEN Put(face_encodings, outcome.student_id,
                        extract_ultra_robust_features(image))
               ELSE face_encodings
        /\ UNCHANGED <<face_data, encodings_file, face_data_file>>
        /\ UNCHANGED <<vvars, svars, tvars, evars, ovars>>

\* recognize_face_from_image(image)
Recognize(image) ==
    /\ call' = [name |-> "recognize_face_from_image", image |-> image]
    /\ result' = recognize_face_from_image(image, face_encodings)
    /\ faces_dir' = IF extract_ultra_robust_features(image) = None
                    THEN faces_dir \cup {TempRecognition}
                    ELSE faces_dir \ {TempRecognition}
    /\ UNCHANGED <<face_encodings, face_data, encodings_file, face_data_file>>
    /\ UNCHANGED <<vvars, svars, tvars, evars, ovars>>

Next ==
    \/ \E photo_url \in PhotoUrls, student_id \in StudentIds :
           Enroll(photo_url, student_id)
    \/ \E image \in ProbeImages : Recognize(image)

Spec == Init /\ [][Next]_vars

(***************************************************************************)
(* The validator on its own.  A candidate is a dict of similarities over   *)
(* the first n families, n = 1..5, with values on a grid that holds every  *)
(* threshold; the validator is called on it.                               *)
(***************************************************************************)
SimLevels == {0, 65, 75, 85, 95, 100}

DictsOver(levels) ==
    UNION {[{FamilyOrder[i] : i \in 1..n} -> levels] : n \in 1..Len(FamilyOrder)}

\* The recognizer is left as constructed, with no files on disk.
RecognizerIdle ==
    /\ face_encodings = << >>
    /\ face_data = << >>
    /\ encodings_file = Absent
    /\ face_data_file = Absent
    /\ faces_dir = {}
    /\ call = [name |-> "__init__"]
    /\ result = None

ValidatorInit ==
    /\ RecognizerIdle
    /\ SecureIdle
    /\ ThreadsIdle
    /\ EnhancedIdle
    /\ OthersIdle
    /\ similarities \in DictsOver(SimLevels)
    /\ validation = NoValidation
    /\ prev_validation = NoValidation
    /\ prev_counts = NoCounts
    /\ relation = "none"

\* validate_recognition_with_consensus(similarities, student_id)
Validate ==
    /\ relation = "none"
    /\ validation' = validate_recognition_with_consensus(similarities)
    /\ relation' = "first"
    /\ UNCHANGED <<similarities, prev_validation, prev_counts>>
    /\ UNCHANGED <<rvars, svars, tvars, evars, ovars>>

ValidatorNext == Validate

ValidatorSpec == ValidatorInit /\ [][ValidatorNext]_vars

(***************************************************************************)
(* Two candidates in a row: the validator is called for one candidate and  *)
(* then for a second one over the same families, either with no similarity *)
(* lower than the first one's or with the same aggregated score.           *)
(***************************************************************************)
RaisedLevels == {0, 75, 95, 100}

SameMeanLevels == {0, 5, 65, 95, 100}

Levels(sims) == {sims[f] : f \in DOMAIN sims}

\* The sum of a dict's similarities.
DictSum(sims) ==
    LET v(f) == IF f \in DOMAIN sims THEN sims[f] ELSE 0
    IN  v("lbp") + v("gradient") + v("regional") + v("gabor") + v("edges")

PairInit ==
    /\ RecognizerIdle
    /\ SecureIdle
    /\ ThreadsIdle
    /\ EnhancedIdle
    /\ OthersIdle
    /\ similarities \in DictsOver(RaisedLevels) \cup DictsOver(SameMeanLevels)
    /\ validation = NoValidation
    /\ prev_validation = NoValidation
    /\ prev_counts = NoCounts
    /\ relation = "none"

ValidateRaised ==
    /\ relation = "first"
    /\ Levels(similarities) \subseteq RaisedLevels
    /\ \E s2 \in [DOMAIN similarities -> RaisedLevels] :
        /\ s2 # similarities
        /\ \A f \in DOMAIN s2 : s2[f] >= similarities[f]
        /\ similarities' = s2
        /\ validation' = validate_recognition_with_consensus(s2)
        /\ prev_validation' = validation
        /\ prev_counts' = ThresholdCounts(similarity_values(similarities))
        /\ relation' = "raised"
    /\ UNCHANGED <<rvars, svars, tvars, evars, ovars>>

ValidateSameMean ==
    /\ relation = "first"
    /\ Levels(similarities) \subseteq SameMeanLevels
    /\ \E s2 \in [DOMAIN similarities -> SameMeanLevels] :
        /\ s2 # similarities
        /\ DictSum(s2) = DictSum(similarities)
        /\ similarities' = s2
        /\ validation' = validate_recognition_with_consensus(s2)
        /\ prev_validation' = validation
        /\ prev_counts' = ThresholdCounts(similarity_values(similarities))
        /\ relation' = "same_mean"
    /\ UNCHANGED <<rvars, svars, tvars, evars, ovars>>

PairNext == Validate \/ ValidateRaised \/ ValidateSameMean

PairSpec == PairInit /\ [][PairNext]_vars

(***************************************************************************)
(* The secure recognizer, one request at a time, stage by stage.  The      *)
(* stages are the points of recognize_face_from_image a request has        *)
(* passed: RECEIVED on entry, LOCATED with the crop of the largest face,   *)
(* QUALITY_CHECKED when validate_face_quality let the crop through,        *)
(* FEATURES_EXTRACTED with the feature vector, SCORED after the comparison *)
(* loop, DECIDED with the dict to return, then ACCEPTED or REJECTED.       *)
(***************************************************************************)
Terminal == {"ACCEPTED", "REJECTED"}

SecureInit ==
    /\ ValidatorIdle
    /\ RecognizerIdle
    /\ ThreadsIdle
    /\ EnhancedIdle
    /\ OthersIdle
    /\ SecureIdle

\* extract_and_save_face of the secure recognizer, between two requests
SecureEnroll(image, student_id) ==
    LET face_img == crop_face(image)
        features == extract_enhanced_features(face_img)
    IN  /\ stage \in Terminal \cup {"IDLE"}
        /\ IF image = None THEN UNCHANGED <<face_features, secure_face_data>>
           ELSE IF ~image.decodable THEN UNCHANGED <<face_features, secure_face_data>>
           ELSE IF Len(image.faces) = 0 THEN UNCHANGED <<face_features, secure_face_data>>
           ELSE IF features = None THEN UNCHANGED <<face_features, secure_face_data>>
           ELSE /\ secure_face_data' = Put(secure_face_data, student_id,
                                           [face_path |-> <<"secure_student", student_id>>,
                                            photo_url |-> image])
                /\ face_features' = Put(face_features, student_id, features)
        /\ UNCHANGED <<stage, request, uploaded_face, secure_features,
                       secure_results, best_result, response>>
        /\ UNCHANGED <<vvars, rvars, tvars, evars, ovars>>

\* recognize_face_from_image(image) is entered
Receive(image) ==
    /\ stage \in Terminal \cup {"IDLE"}
    /\ stage' = "RECEIVED"
    /\ request' = image
    /\ uploaded_face' = None
    /\ secure_features' = None
    /\ secure_results' = << >>
    /\ best_result' = None
    /\ response' = None
    /\ UNCHANGED <<face_features, secure_face_data>>
    /\ UNCHANGED <<vvars, rvars, tvars, evars, ovars>>

\* cvtColor, detectMultiScale and the crop around the largest face
Locate ==
    /\ stage = "RECEIVED"
    /\ IF ~request.decodable
       THEN /\ stage' = "REJECTED"
            /\ response' = Rejection("Error during recognition", "ERROR")
            /\ UNCHANGED uploaded_face
       ELSE IF Len(request.faces) = 0
       THEN /\ stage' = "REJECTED"
            /\ response' = Rejection("No faces detected in image", "NO_FACE")
            /\ UNCHANGED uploaded_face
       ELSE /\ stage' = "LOCATED"
            /\ uploaded_face' = crop_face(request)
            /\ UNCHANGED response
    /\ UNCHANGED <<request, secure_features, secure_results, best_result,
                   face_features, secure_face_data>>
    /\ UNCHANGED <<vvars, rvars, tvars, evars, ovars>>

\* a mutation of QualityCheck: the crop goes on whatever the gate says
QualityCheckIgnored ==
    /\ stage = "LOCATED"
    /\ stage' = "QUALITY_CHECKED"
    /\ UNCHANGED <<request, uploaded_face, secure_features, secure_results,
                   best_result, response, face_features, secure_face_data>>
    /\ UNCHANGED <<vvars, rvars, tvars, evars, ovars>>

\* validate_face_quality, the first step of extract_enhanced_features
QualityCheck ==
    /\ stage = "LOCATED"
    /\ IF validate_face_quality(uploaded_face).is_valid
       THEN stage' = "QUALITY_CHECKED" /\ UNCHANGED response
       ELSE /\ stage' = "REJECTED"
            /\ response' = Rejection("Face quality validation failed", "POOR_QUALITY")
    /\ UNCHANGED <<request, uploaded_face, secure_features, secure_results,
                   best_result, face_features, secure_face_data>>
    /\ UNCHANGED <<vvars, rvars, tvars, evars, ovars>>

\* the rest of extract_enhanced_features
Extract ==
    /\ stage = "QUALITY_CHECKED"
    /\ stage' = "FEATURES_EXTRACTED"
    /\ secure_features' = extract_enhanced_features(uploaded_face)
    /\ UNCHANGED <<request, uploaded_face, secure_results, best_result, response,
                   face_features, secure_face_data>>
    /\ UNCHANGED <<vvars, rvars, tvars, evars, ovars>>

\* an OpenCV or numpy call of the extractor raises: it returns None
ExtractFails ==
    /\ stage = "QUALITY_CHECKED"
    /\ stage' = "REJECTED"
    /\ response' = Rejection("Face quality validation failed", "POOR_QUALITY")
    /\ UNCHANGED <<request, uploaded_face, secure_features, secure_results,
                   best_result, face_features, secure_face_data>>
    /\ UNCHANGED <<vvars, rvars, tvars, evars, ovars>>

\* the comparison loop over self.face_features
Score ==
    LET results == secure_all_results(secure_features, face_features)
        best    == SecureBest(results, 1, 0)
    IN  /\ stage = "FEATURES_EXTRACTED"
        /\ stage' = "SCORED"
        /\ secure_results' = results
        /\ best_result' = IF best = 0 THEN None ELSE results[best]
        /\ UNCHANGED <<request, uploaded_face, secure_features, response,
                       face_features, secure_face_data>>
        /\ UNCHANGED <<vvars, rvars, tvars, evars, ovars>>

\* the last if / else builds the dict to return
DecideOutcome ==
    /\ stage = "SCORED"
    /\ stage' = "DECIDED"
    /\ response' = secure_decision(secure_results, best_result)
    /\ UNCHANGED <<request, uploaded_face, secure_features, secure_results,
                   best_result, face_features, secure_face_data>>
    /\ UNCHANGED <<vvars, rvars, tvars, evars, ovars>>

\* a mutation of Return: a request that found no match is tried again from
\* the crop
ReturnOrRetry ==
    /\ stage = "DECIDED"
    /\ stage' = IF response.match_found THEN "ACCEPTED" ELSE "LOCATED"
    /\ UNCHANGED <<request, uploaded_face, secure_features, secure_results,
                   best_result, response, face_features, secure_face_data>>
    /\ UNCHANGED <<vvars, rvars, tvars, evars, ovars>>

\* the dict is returned
Return ==
    /\ stage = "DECIDED"
    /\ stage' = IF response.match_found THEN "ACCEPTED" ELSE "REJECTED"
    /\ UNCHANGED <<request, uploaded_face, secure_features, secure_results,
                   best_result, response, face_features, secure_face_data>>
    /\ UNCHANGED <<vvars, rvars, tvars, evars, ovars>>

\* one step of the request in progress
Advance == Locate \/ QualityCheck \/ Extract \/ ExtractFails \/ Score \/ DecideOutcome \/ Return

SecureNext ==
    \/ \E image \in SecureImages \cup {None}, student_id \in StudentIds :
           SecureEnroll(image, student_id)
    \/ \E image \in SecureImages : Receive(image)
    \/ Locate
    \/ QualityCheck
    \/ Extract
    \/ ExtractFails
    \/ Score
    \/ DecideOutcome
    \/ Return

SecureSpec == SecureInit /\ [][SecureNext]_vars

\* A request that was received is carried on until it returns: the handler
\* runs on a thread of its own and has no loop but the one over the store.
SecureFairSpec == SecureSpec /\ WF_vars(Advance)

(***************************************************************************)
(* The ultra-robust recognizer under concurrent requests.  The recognizer  *)
(* is one module-level object, its methods take no lock, and the server    *)
(* runs every request on a thread of its own; a thread can be preempted    *)
(* between any two statements that touch the dicts or the files.  Each     *)
(* action below is one such statement for thread t.                        *)
(***************************************************************************)
MaxCalls == 2

ServedUrls == {"A", "B", "unreachable"}

ServedImages == {Image("A"), Image("B")}

ChangedSizeReason ==
    "Error during recognition: dictionary changed size during iteration"

NoSuchFileReason == "Error during recognition: [Errno 2] No such file or directory"

\* extract_ultra_robust_features(path): cv2.imread gives None for a file
\* that is not there, and the extractor returns None
extract_from_file(path) ==
    IF temp_content[path] = None THEN None
    ELSE extract_ultra_robust_features(temp_content[path])

\* thread t goes on as rec; the others stay where they are
Goes(t, rec) ==
    /\ threads' = [threads EXCEPT ![t] = rec]
    /\ UNCHANGED <<vvars, svars, evars, ovars>>

\* thread t returns value from its call
Returning(t, value) == [threads[t] EXCEPT !.pc = "done", !.returned = value]

\* The recognizer was constructed over the files of an earlier run that
\* enrolled nobody or student 1.
ServerInit ==
    /\ ValidatorIdle
    /\ SecureIdle
    /\ ThreadsIdle
    /\ EnhancedIdle
    /\ OthersIdle
    /\ face_encodings \in
           { << >>, Put(<< >>, "1", extract_ultra_robust_features(Image("A"))) }
    /\ face_data = [i \in 1..Len(face_encodings) |->
                       [key |-> face_encodings[i].key,
                        value |-> FaceData(face_encodings[i].key, "A",
                                           face_encodings[i].value)]]
    /\ encodings_file = save_face_encodings(face_encodings)
    /\ face_data_file = save_face_data(face_data)
    /\ faces_dir = {FaceImage(k) : k \in Keys(face_encodings)}
    /\ call = [name |-> "__init__"]
    /\ result = None

\* extract_and_save_face is called; lines 298-300
BeginEnroll(t, photo_url, student_id) ==
    LET image == download_image_from_url(photo_url)
        entered == [pc |-> "write_temp", calls |-> threads[t].calls + 1,
                    op |-> "extract_and_save_face", photo_url |-> photo_url,
                    student_id |-> student_id, image |-> image, features |-> None,
                    returned |-> None]
    IN  /\ threads[t].pc \in {"idle", "done"}
        /\ threads[t].calls < MaxCalls
        /\ Goes(t, IF image = None THEN [entered EXCEPT !.pc = "done", !.returned = FALSE]
                   ELSE entered)
        /\ UNCHANGED <<rvars, temp_content>>

\* line 304: cv2.imwrite(temp_path, image)
WriteTempEnroll(t) ==
    /\ threads[t].pc = "write_temp"
    /\ temp_content' = [temp_content EXCEPT ![TempEnroll(threads[t].student_id)] =
                            threads[t].image]
    /\ faces_dir' = faces_dir \cup {TempEnroll(threads[t].student_id)}
    /\ Goes(t, [threads[t] EXCEPT !.pc = "extract"])
    /\ UNCHANGED <<face_encodings, face_data, encodings_file, face_data_file,
                   call, result>>

\* lines 307-309: the extractor reads the temporary file back
ExtractEnroll(t) ==
    LET features == extract_from_file(TempEnroll(threads[t].student_id))
    IN  /\ threads[t].pc = "extract"
        /\ Goes(t, IF features = None THEN Returning(t, FALSE)
                   ELSE [threads[t] EXCEPT !.pc = "write_face", !.features = features])
        /\ UNCHANGED <<rvars, temp_content>>

\* line 313: cv2.imwrite(face_path, image)
WriteFace(t) ==
    /\ threads[t].pc = "write_face"
    /\ faces_dir' = faces_dir \cup {FaceImage(threads[t].student_id)}
    /\ Goes(t, [threads[t] EXCEPT !.pc = "put_encodings"])
    /\ UNCHANGED <<face_encodings, face_data, encodings_file, face_data_file,
                   call, result, temp_content>>

\* line 316: self.face_encodings[student_id] = features.  A scan in
\* progress on another thread has one more instant of the dict behind it.
PutEncodings(t) ==
    /\ threads[t].pc = "put_encodings"
    /\ face_encodings' = Put(face_encodings, threads[t].student_id, threads[t].features)
    /\ threads' = [u \in Threads |->
                      IF u = t THEN [threads[t] EXCEPT !.pc = "put_data"]
                      ELSE IF threads[u].pc = "scan"
                      THEN [threads[u] EXCEPT !.instants = @ \cup {face_encodings'}]
                      ELSE threads[u]]
    /\ UNCHANGED <<face_data, encodings_file, face_data_file, faces_dir,
                   call, result, temp_content>>
    /\ UNCHANGED <<vvars, svars, evars, ovars>>

\* lines 317-322: self.face_data[student_id] = {...}
PutData(t) ==
    /\ threads[t].pc = "put_data"
    /\ face_data' = Put(face_data, threads[t].student_id,
                        FaceData(threads[t].student_id, threads[t].photo_url,
                                 threads[t].features))
    /\ Goes(t, [threads[t] EXCEPT !.pc = "save_encodings"])
    /\ UNCHANGED <<face_encodings, encodings_file, face_data_file, faces_dir,
                   call, result, temp_content>>

\* line 325: save_face_encodings()
SaveEncodings(t) ==
    /\ threads[t].pc = "save_encodings"
    /\ encodings_file' = save_face_encodings(face_encodings)
    /\ Goes(t, [threads[t] EXCEPT !.pc = "save_data"])
    /\ UNCHANGED <<face_encodings, face_data, face_data_file, faces_dir,
                   call, result, temp_content>>

\* line 326: save_face_data()
SaveData(t) ==
    /\ threads[t].pc = "save_data"
    /\ face_data_file' = save_face_data(face_data)
    /\ Goes(t, [threads[t] EXCEPT !.pc = "temp_exists"])
    /\ UNCHANGED <<face_encodings, face_data, encodings_file, faces_dir,
                   call, result, temp_content>>

\* The temporary file of the call thread t is serving.
TempOf(t) ==
    IF threads[t].op = "extract_and_save_face" THEN TempEnroll(threads[t].student_id)
    ELSE TempRecognition

\* what the call returns once the temporary file is out of the way
Finished(t) ==
    IF threads[t].op = "extract_and_save_face" THEN Returning(t, TRUE)
    ELSE Returning(t, recognize_face_from_image(threads[t].read, threads[t].scanned))

\* what the except clause of the call returns for a missing file
FailedOnFile(t) ==
    IF threads[t].op = "extract_and_save_face" THEN Returning(t, FALSE)
    ELSE Returning(t, [match_found |-> FALSE, reason |-> NoSuchFileReason])

\* lines 329 and 376: if temp_path.exists()
TempExists(t) ==
    /\ threads[t].pc = "temp_exists"
    /\ Goes(t, IF TempOf(t) \in faces_dir THEN [threads[t] EXCEPT !.pc = "unlink"]
               ELSE Finished(t))
    /\ UNCHANGED <<rvars, temp_content>>

\* lines 330 and 377: temp_path.unlink(), which raises when the file is gone
Unlink(t) ==
    /\ threads[t].pc = "unlink"
    /\ faces_dir' = faces_dir \ {TempOf(t)}
    /\ temp_content' = [temp_content EXCEPT ![TempOf(t)] = None]
    /\ Goes(t, IF TempOf(t) \in faces_dir THEN Finished(t) ELSE FailedOnFile(t))
    /\ UNCHANGED <<face_encodings, face_data, encodings_file, face_data_file,
                   call, result>>

\* recognize_face_from_image is called
BeginRecognize(t, image) ==
    /\ threads[t].pc \in {"idle", "done"}
    /\ threads[t].calls < MaxCalls
    /\ Goes(t, [pc |-> "write_probe", calls |-> threads[t].calls + 1,
                op |-> "recognize_face_from_image", image |-> image, read |-> None,
                used |-> 0, scanned |-> << >>, instants |-> {}, returned |-> None])
    /\ UNCHANGED <<rvars, temp_content>>

\* line 344: cv2.imwrite(temp_path, image)
WriteTempRecognition(t) ==
    /\ threads[t].pc = "write_probe"
    /\ temp_content' = [temp_content EXCEPT ![TempRecognition] = threads[t].image]
    /\ faces_dir' = faces_dir \cup {TempRecognition}
    /\ Goes(t, [threads[t] EXCEPT !.pc = "extract_probe"])
    /\ UNCHANGED <<face_encodings, face_data, encodings_file, face_data_file,
                   call, result>>

\* lines 347-353: the extractor reads the temporary file back
ExtractProbe(t) ==
    LET read == temp_content[TempRecognition]
    IN  /\ threads[t].pc = "extract_probe"
        /\ Goes(t, IF extract_from_file(TempRecognition) = None
                   THEN Returning(t, [match_found |-> FALSE, reason |-> ExtractionReason])
                   ELSE [threads[t] EXCEPT !.pc = "start_scan", !.read = read])
        /\ UNCHANGED <<rvars, temp_content>>

\* line 359: the iterator over self.face_encodings.items() is created
StartScan(t) ==
    /\ threads[t].pc = "start_scan"
    /\ Goes(t, [threads[t] EXCEPT !.pc = "scan", !.used = Len(face_encodings),
                                  !.instants = {face_encodings}])
    /\ UNCHANGED <<rvars, temp_content>>

\* lines 359-373: the iterator is asked for the next item, which raises
\* when the dict has another size than at its creation, and the loop body
\* is run for the item
ScanNext(t) ==
    LET pos == Len(threads[t].scanned)
    IN  /\ threads[t].pc = "scan"
        /\ Goes(t, IF Len(face_encodings) # threads[t].used
                   THEN Returning(t, [match_found |-> FALSE, reason |-> ChangedSizeReason])
                   ELSE IF pos = Len(face_encodings)
                   THEN [threads[t] EXCEPT !.pc = "temp_exists"]
                   ELSE [threads[t] EXCEPT
                            !.scanned = Append(@, face_encodings[pos + 1])])
        /\ UNCHANGED <<rvars, temp_content>>

ServerNext ==
    \E t \in Threads :
        \/ \E photo_url \in ServedUrls, student_id \in StudentIds :
               BeginEnroll(t, photo_url, student_id)
        \/ WriteTempEnroll(t)
        \/ ExtractEnroll(t)
        \/ WriteFace(t)
        \/ PutEncodings(t)
        \/ PutData(t)
        \/ SaveEncodings(t)
        \/ SaveData(t)
        \/ TempExists(t)
        \/ Unlink(t)
        \/ \E image \in ServedImages : BeginRecognize(t, image)
        \/ WriteTempRecognition(t)
        \/ ExtractProbe(t)
        \/ StartScan(t)
        \/ ScanNext(t)

ServerSpec == ServerInit /\ [][ServerNext]_vars

(***************************************************************************)
(* The enhanced recognizer: construction, enrolment, recognition.          *)
(***************************************************************************)
\* __init__: empty maps, then load_face_data and load_face_features over
\* what an earlier run left in the faces directory: nothing, or the profile
\* of one student.
EnhancedInit ==
    /\ ValidatorIdle
    /\ RecognizerIdle
    /\ SecureIdle
    /\ ThreadsIdle
    /\ OthersIdle
    /\ \E snapshot \in { << >> } \cup { << [key |-> k, value |-> p] >> :
                                          k \in StudentIds, p \in {"A", "B"} } :
        /\ enhanced_face_data_file \in
               { Absent, Corrupt,
                 save_face_data([i \in 1..Len(snapshot) |->
                     [key   |-> snapshot[i].key,
                      value |-> [face_path |-> EnhancedFaceImage(snapshot[i].key),
                                 photo_url |-> snapshot[i].value]]]) }
        /\ enhanced_features_file \in
               { Absent, Corrupt,
                 save_face_features([i \in 1..Len(snapshot) |->
                     [key   |-> snapshot[i].key,
                      value |-> extract_face_features(
                                    crop_face(enhanced_download_image_from_url(
                                                  snapshot[i].value)))]]) }
        /\ enhanced_faces_dir = {EnhancedFaceImage(snapshot[i].key) : i \in 1..Len(snapshot)}
    /\ enhanced_face_data = load_face_data(enhanced_face_data_file)
    /\ enhanced_face_features = load_face_features(enhanced_features_file)
    /\ enhanced_call = [name |-> "__init__"]
    /\ enhanced_result = None

\* extract_and_save_face(photo_url, student_id)
EnhancedEnroll(photo_url, student_id) ==
    LET image == enhanced_download_image_from_url(photo_url)
    IN  /\ enhanced_call' = [name |-> "extract_and_save_face",
                             photo_url |-> photo_url, student_id |-> student_id]
        /\ IF image = None
           THEN /\ enhanced_result' = FALSE
                /\ UNCHANGED <<enhanced_face_data, enhanced_face_features,
                               enhanced_face_data_file, enhanced_features_file,
                               enhanced_faces_dir>>
           ELSE IF Len(image.faces) = 0
           THEN /\ enhanced_result' = FALSE
                /\ UNCHANGED <<enhanced_face_data, enhanced_face_features,
                               enhanced_face_data_file, enhanced_features_file,
                               enhanced_faces_dir>>
           ELSE IF extract_face_features(crop_face(image)) = None
           THEN /\ enhanced_result' = FALSE
                /\ UNCHANGED <<enhanced_face_data, enhanced_face_features,
                               enhanced_face_data_file, enhanced_features_file,
                               enhanced_faces_dir>>
           ELSE /\ enhanced_faces_dir' =
                       enhanced_faces_dir \cup {EnhancedFaceImage(student_id)}
                /\ enhanced_face_data' =
                       Put(enhanced_face_data, student_id,
                           [face_path |-> EnhancedFaceImage(student_id),
                            photo_url |-> photo_url])
                /\ enhanced_face_features' =
                       Put(enhanced_face_features, student_id,
                           extract_face_features(crop_face(image)))
                /\ enhanced_face_data_file' = save_face_data(enhanced_face_data')
                /\ enhanced_features_file' = save_face_features(enhanced_face_features')
                /\ enhanced_result' = TRUE
        /\ UNCHANGED <<vvars, rvars, svars, tvars, ovars>>

\* recognize_face_from_image(image), with the default threshold
EnhancedRecognize(image) ==
    /\ enhanced_call' = [name |-> "recognize_face_from_image", image |-> image]
    /\ enhanced_result' = enhanced_recognize_face_from_image(image, enhanced_face_features)
    /\ UNCHANGED <<enhanced_face_data, enhanced_face_features,
                   enhanced_face_data_file, enhanced_features_file,
                   enhanced_faces_dir>>
    /\ UNCHANGED <<vvars, rvars, svars, tvars, ovars>>

EnhancedNext ==
    \/ \E photo_url \in EnhancedUrls, student_id \in StudentIds :
           EnhancedEnroll(photo_url, student_id)
    \/ \E image \in EnhancedImages : EnhancedRecognize(image)

EnhancedSpec == EnhancedInit /\ [][EnhancedNext]_vars

(***************************************************************************)
(* The recognizer on photos on which a descriptor raises: constructed     *)
(* over an empty faces directory, it enrols and recognizes clean and       *)
(* faulty photos.                                                          *)
(***************************************************************************)
FaultyInit ==
    /\ ValidatorIdle
    /\ RecognizerIdle
    /\ SecureIdle
    /\ ThreadsIdle
    /\ EnhancedIdle
    /\ OthersIdle

FaultyNext ==
    \/ \E photo_url \in {"A", "B"} \cup FaultyPhotoUrls, student_id \in StudentIds :
           Enroll(photo_url, student_id)
    \/ \E image \in {Image("A"), Image("B"), FaultyImage("A"), FaultyImage("B")} :
           Recognize(image)

FaultySpec == FaultyInit /\ [][FaultyNext]_vars

(***************************************************************************)
(* The ultra recognizer on the pictures E, F and G, from an empty store.   *)
(***************************************************************************)
TierInit ==
    /\ ValidatorIdle
    /\ RecognizerIdle
    /\ SecureIdle
    /\ ThreadsIdle
    /\ EnhancedIdle
    /\ OthersIdle

TierNext ==
    \/ \E photo_url \in TierPictures, student_id \in StudentIds :
           Enroll(photo_url, student_id)
    \/ \E picture \in TierPictures : Recognize(Image(picture))

TierSpec == TierInit /\ [][TierNext]_vars

(***************************************************************************)
(* The /mark-attendance requests of professional_attendance_api.py.        *)
(***************************************************************************)
AttendanceInit ==
    /\ ValidatorIdle
    /\ RecognizerIdle
    /\ SecureIdle
    /\ ThreadsIdle
    /\ EnhancedIdle
    /\ OthersIdle

\* A request arrives and its handler awaits the read of the upload.
Arrive(r, file) ==
    /\ requests[r].pc = "idle"
    /\ requests[r].calls < MaxRequests
    /\ requests' = [requests EXCEPT ![r].pc = "reading", ![r].file = file]
    /\ UNCHANGED <<attendance, today>>
    /\ UNCHANGED <<vvars, rvars, svars, tvars, evars,
                   argument, returned, applied, dvars>>

\* The handler resumes and runs to its return.  overlapped records whether
\* another request was being handled at that time.
Mark(r) ==
    /\ requests[r].pc = "reading"
    /\ \E db_raises \in BOOLEAN :
          LET outcome == mark_attendance(requests[r].file, attendance, today,
                                         db_raises)
          IN  /\ attendance' = outcome.attendance
              /\ requests' =
                     [requests EXCEPT
                         ![r].pc = "idle",
                         ![r].response = outcome.response,
                         ![r].calls = @ + 1,
                         ![r].overlapped =
                             \E q \in RequestIds \ {r} :
                                 requests[q].pc = "reading"]
    /\ UNCHANGED today
    /\ UNCHANGED <<vvars, rvars, svars, tvars, evars,
                   argument, returned, applied, dvars>>

\* The day changes.
Midnight ==
    /\ today < MaxDays
    /\ today' = today + 1
    /\ UNCHANGED <<attendance, requests>>
    /\ UNCHANGED <<vvars, rvars, svars, tvars, evars,
                   argument, returned, applied, dvars>>

AttendanceNext ==
    \/ \E r \in RequestIds, picture \in Uploads : Arrive(r, Image(picture))
    \/ \E r \in RequestIds : Mark(r)
    \/ Midnight

AttendanceSpec == AttendanceInit /\ [][AttendanceNext]_vars

(***************************************************************************)
(* The database-backed recognizer and the routes that change the students  *)
(* table.                                                                  *)
(***************************************************************************)
DatabaseInit ==
    /\ ValidatorIdle
    /\ RecognizerIdle
    /\ SecureIdle
    /\ ThreadsIdle
    /\ EnhancedIdle
    /\ OthersIdle

DbRest == <<vvars, rvars, svars, tvars, evars,
            argument, returned, applied, avars>>

\* save_student_face_encoding(student_id, image_path, db)
SaveStudentFaceEncoding(student_id, photo) ==
    /\ IF encode_face(photo) = None \/ student_id \notin DOMAIN students
       THEN /\ db_call' = [name |-> "save_student_face_encoding",
                           student_id |-> student_id, result |-> FALSE]
            /\ UNCHANGED students
       ELSE /\ db_call' = [name |-> "save_student_face_encoding",
                           student_id |-> student_id, result |-> TRUE]
            /\ students' = [students EXCEPT
                               ![student_id].face_encoding = encode_face(photo)]
    /\ UNCHANGED known_faces
    /\ UNCHANGED DbRest

\* crud.get_student_by_id(db, student_id): the student when it is active
get_student_by_id(student_id) ==
    student_id \in DOMAIN students /\ students[student_id].is_active

\* DELETE /student/{student_id}/face-encoding
DeleteStudentFaceEncoding(student_id) ==
    /\ IF ~get_student_by_id(student_id)
       THEN /\ db_call' = [name |-> "delete_student_face_encoding",
                           student_id |-> student_id, result |-> FALSE]
            /\ UNCHANGED <<students, known_faces>>
       ELSE /\ db_call' = [name |-> "delete_student_face_encoding",
                           student_id |-> student_id, result |-> TRUE]
            /\ students' = [students EXCEPT ![student_id].face_encoding = None]
            /\ known_faces' = SelectSeq(known_faces,
                                        LAMBDA e : e.key # student_id)
    /\ UNCHANGED DbRest

\* crud.delete_student: the student is deactivated
DeactivateStudent(student_id) ==
    /\ IF ~get_student_by_id(student_id)
       THEN /\ db_call' = [name |-> "delete_student",
                           student_id |-> student_id, result |-> FALSE]
            /\ UNCHANGED students
       ELSE /\ db_call' = [name |-> "delete_student",
                           student_id |-> student_id, result |-> TRUE]
            /\ students' = [students EXCEPT ![student_id].is_active = FALSE]
    /\ UNCHANGED known_faces
    /\ UNCHANGED DbRest

\* recognize_student(frame, db)
RecognizeStudent(frame) ==
    /\ IF encode_face(frame) = None
       THEN /\ db_call' = [name |-> "recognize_student", frame |-> frame,
                           result |-> None]
            /\ UNCHANGED known_faces
       ELSE /\ known_faces' = IF Len(known_faces) = 0
                              THEN load_student_faces(students, 1)
                              ELSE known_faces
            /\ db_call' = [name |-> "recognize_student", frame |-> frame,
                           result |-> best_match(known_faces', encode_face(frame),
                                                 1, None)]
    /\ UNCHANGED students
    /\ UNCHANGED DbRest

DatabaseNext ==
    \/ \E student_id \in DbStudentIds \cup {3}, photo \in {"X", "Y", "blank"} :
           SaveStudentFaceEncoding(student_id, photo)
    \/ \E student_id \in DbStudentIds \cup {3} :
           DeleteStudentFaceEncoding(student_id)
    \/ \E student_id \in DbStudentIds \cup {3} : DeactivateStudent(student_id)
    \/ \E frame \in {"X-side", "Y", "blank"} : RecognizeStudent(frame)

DatabaseSpec == DatabaseInit /\ [][DatabaseNext]_vars

(***************************************************************************)
(* The quality gate and the crop of the secure recognizer on their own,    *)
(* each applied once to an input drawn from a grid that holds the values   *)
(* on both sides of every comparison of the code.                          *)
(***************************************************************************)
\* Crops by height, width, Laplacian variance, mean and standard deviation
\* of the intensity.  A crop without variation has no Laplacian response,
\* and a crop of mean 0 is black throughout.
QualityInputs ==
    { c \in { [w |-> w, h |-> h, laplacian_var |-> l, brightness |-> b,
               contrast |-> k, picture |-> "A"] :
                 w \in {49, 50, 100}, h \in {0, 49, 50, 100}, l \in {0, 99, 100, 101},
                 b \in {0, 29, 30, 128, 230, 231}, k \in {0, 19, 20, 21} } :
        /\ (c.contrast = 0 => c.laplacian_var = 0)
        /\ (c.brightness = 0 => c.contrast = 0) }

\* Images of W x H with one detected box inside them, or with two.
CropInputs ==
    LET Box(x, y, w, h) == [x |-> x, y |-> y, w |-> w, h |-> h,
                            laplacian_var |-> 150, brightness |-> 120,
                            contrast |-> 40, picture |-> "A"]
        Sized(W, H, faces) == [decodable |-> TRUE, width |-> W, height |-> H,
                               faces |-> faces]
        Boxes(W, H) == { b \in { Box(x, y, w, h) : x \in {0, 3, 30, 58},
                                                  y \in {0, 3, 30, 58},
                                                  w \in {40, 42, 70}, h \in {40, 42, 70} } :
                            b.x + b.w <= W /\ b.y + b.h <= H }
    IN  UNION { { Sized(W, H, <<b>>) : b \in Boxes(W, H) }
                \cup { Sized(W, H, <<Box(58, 58, 42, 42), b>>) :
                          b \in { c \in Boxes(W, H) : c.h = c.w } } :
                W \in {100, 110}, H \in {100} }

FunctionInit ==
    /\ ValidatorIdle
    /\ RecognizerIdle
    /\ SecureIdle
    /\ ThreadsIdle
    /\ EnhancedIdle
    /\ argument \in QualityInputs \cup CropInputs
    /\ returned = None
    /\ applied = "none"
    /\ AttendanceIdle
    /\ DatabaseIdle

\* validate_face_quality(face_img), and extract_enhanced_features(face_img)
\* which calls it first
ValidateQuality ==
    /\ applied = "none"
    /\ argument \in QualityInputs
    /\ applied' = "validate_face_quality"
    /\ returned' = [quality  |-> validate_face_quality(argument),
                    features |-> extract_enhanced_features(argument)]
    /\ UNCHANGED <<argument, vvars, rvars, svars, tvars, evars, avars, dvars>>

\* the largest face of the image and its padded crop
CropLargest ==
    /\ applied = "none"
    /\ argument \in CropInputs
    /\ applied' = "crop_face"
    /\ returned' = crop_face(argument)
    /\ UNCHANGED <<argument, vvars, rvars, svars, tvars, evars, avars, dvars>>

FunctionNext == ValidateQuality \/ CropLargest

FunctionSpec == FunctionInit /\ [][FunctionNext]_vars

(***************************************************************************)
(* The recognizer across restarts: enrolments under str and int student    *)
(* ids, and the construction of a new recognizer over the files the last   *)
(* one left.                                                               *)
(***************************************************************************)
RestartInit ==
    /\ ValidatorIdle
    /\ RecognizerIdle
    /\ SecureIdle
    /\ ThreadsIdle
    /\ EnhancedIdle
    /\ OthersIdle

\* __init__ of a new process: empty maps, then load_face_data and
\* load_face_encodings
Restart ==
    /\ face_encodings' = load_face_encodings(encodings_file)
    /\ face_data' = load_face_data(face_data_file)
    /\ call' = [name |-> "__init__"]
    /\ result' = None
    /\ UNCHANGED <<encodings_file, face_data_file, faces_dir>>
    /\ UNCHANGED <<vvars, svars, tvars, evars, ovars>>

RestartNext ==
    \/ \E photo_url \in {"A", "B"}, student_id \in {"1", "int:1", "2"} :
           Enroll(photo_url, student_id)
    \/ Restart

RestartSpec == RestartInit /\ [][RestartNext]_vars

(***************************************************************************)
(* Claims about the validator.                                             *)
(***************************************************************************)
\* The tiers in the order REJECTED < MEDIUM < HIGH < ULTRA_HIGH.
LevelRank(level) ==
    CASE level = "ULTRA_HIGH" -> 3
      [] level = "HIGH"       -> 2
      [] level = "MEDIUM"     -> 1
      [] OTHER                -> 0

\* The claims' reading of a candidate, in hundredths: n families, their sum,
\* the sum of their squares, how many reach a threshold.
NumFamilies(sims) == Cardinality(DOMAIN sims)

SumSquares(sims) ==
    LET v(f) == IF f \in DOMAIN sims THEN sims[f] * sims[f] ELSE 0
    IN  v("lbp") + v("gradient") + v("regional") + v("gabor") + v("edges")

Reaching(sims, t) == Cardinality({f \in DOMAIN sims : sims[f] >= t})

Sitting(sims, t) == Cardinality({f \in DOMAIN sims : sims[f] = t})

\* mean >= t
MeanAtLeast(sims, t) == DictSum(sims) >= t * NumFamilies(sims)

\* variance < 0.15:  n * sum(v^2) - sum(v)^2 < 1500 * n^2
VarianceBelowMax(sims) ==
    NumFamilies(sims) * SumSquares(sims) - DictSum(sims) * DictSum(sims)
        < 1500 * NumFamilies(sims) * NumFamilies(sims)

VarianceIsMax(sims) ==
    NumFamilies(sims) * SumSquares(sims) - DictSum(sims) * DictSum(sims)
        = 1500 * NumFamilies(sims) * NumFamilies(sims)

TierCondition(sims, t, needed) ==
    /\ Reaching(sims, t) >= needed
    /\ MeanAtLeast(sims, t)
    /\ Reaching(sims, 65) >= 3
    /\ VarianceBelowMax(sims)

ClaimedTier(sims) ==
    IF TierCondition(sims, 95, 3) THEN "ULTRA_HIGH"
    ELSE IF TierCondition(sims, 85, 3) THEN "HIGH"
    ELSE IF TierCondition(sims, 75, 4) THEN "MEDIUM"
    ELSE "REJECTED"

C6_Monotone ==
    relation = "raised" =>
        LevelRank(validation.confidence_level)
            >= LevelRank(prev_validation.confidence_level)

\* C6, amended: for two candidates over the same families, the second with
\* no similarity lower than the first, the second's tier is never lower than
\* the first's provided the second's variance is still below MAX_VARIANCE.
C6_MonotoneWhileVarianceLow ==
    (relation = "raised" /\ VarianceBelowMax(similarities)) =>
        LevelRank(validation.confidence_level)
            >= LevelRank(prev_validation.confidence_level)

\* An accepted candidate is raised, keeps a low variance and gains a tier.
C6_Witness ==
    /\ relation = "raised"
    /\ VarianceBelowMax(similarities)
    /\ prev_validation.accept
    /\ LevelRank(validation.confidence_level)
           > LevelRank(prev_validation.confidence_level)

\* C7 as stated: of two candidates with the same families and the same mean,
\* the one with the lower variance has a tier at least as high.
C7_LowerVarianceNotWorse ==
    (relation = "same_mean" /\ validation.variance < prev_validation.variance) =>
        LevelRank(validation.confidence_level)
            >= LevelRank(prev_validation.confidence_level)

CountsAtLeast(c, d) ==
    /\ c.ultra_high >= d.ultra_high
    /\ c.high >= d.high
    /\ c.medium >= d.medium
    /\ c.minimum >= d.minimum

\* C7, amended: of two candidates with the same families and the same mean,
\* the one with the lower variance has a tier at least as high provided it
\* has at least as many families at or above each of the four thresholds.
C7_LowerVarianceNotWorseGivenCounts ==
    (/\ relation = "same_mean"
     /\ validation.variance < prev_validation.variance
     /\ CountsAtLeast(ThresholdCounts(similarity_values(similarities)), prev_counts)) =>
        LevelRank(validation.confidence_level)
            >= LevelRank(prev_validation.confidence_level)

\* The variance decides: the earlier candidate is rejected for its variance
\* alone, the later one has the same mean, no fewer families at any
\* threshold and a lower variance, and is accepted.
C7_Witness ==
    /\ relation = "same_mean"
    /\ validation.variance < prev_validation.variance
    /\ CountsAtLeast(ThresholdCounts(similarity_values(similarities)), prev_counts)
    /\ prev_validation.confidence_level = "REJECTED"
    /\ prev_validation.variance >= MAX_VARIANCE * 360000
    /\ validation.accept

(***************************************************************************)
(* Claims about recognition.                                               *)
(***************************************************************************)
\* The last call was a recognition.
Recognized == call.name = "recognize_face_from_image"

\* The last call was a recognition whose probe yielded features, so that
\* the stored profiles were scanned.
Scanned == Recognized /\ extract_ultra_robust_features(call.image) # None

\* What that scan computed for each stored profile (a recognition leaves
\* the stored profiles as they were).
Scan == all_results(extract_ultra_robust_features(call.image), face_encodings)

AcceptedInScan == {i \in 1..Len(Scan) : Scan[i].validation.accept}

\* C2: in every recognition, a candidate the validator accepts has at least
\* 3 families compared, at least 3 of them with a similarity >= 0.65, an
\* aggregated score >= 0.75 and a variance < 0.15, and the identity a
\* recognition returns is such a candidate.
C2_AcceptedOnConsensusOnly ==
    Scanned =>
        /\ \A i \in AcceptedInScan :
              /\ NumFamilies(Scan[i].similarities) >= 3
              /\ Reaching(Scan[i].similarities, 65) >= 3
              /\ MeanAtLeast(Scan[i].similarities, 75)
              /\ VarianceBelowMax(Scan[i].similarities)
        /\ result.match_found =>
              \E i \in AcceptedInScan : Scan[i].student_id = result.student_id

\* A recognition returns an identity while another stored profile, compared
\* on two families only and both of them at 0.95 or more, is not accepted.
C2_Witness ==
    /\ Scanned
    /\ result.match_found
    /\ \E i \in 1..Len(Scan) :
          /\ NumFamilies(Scan[i].similarities) = 2
          /\ Reaching(Scan[i].similarities, 95) = 2
          /\ ~Scan[i].validation.accept

\* C3: a recognition against an empty store grants no match and gives a
\* reason of its own, which is neither the reason given when no stored
\* profile passes validation nor the reason of an internal error.
C3_EmptyStoreHasOwnReason ==
    (Scanned /\ Len(face_encodings) = 0) =>
        /\ ~result.match_found
        /\ result.reason \notin {NoValidationReason, KeyErrorReason}

\* C4: whenever the validator accepts at least one stored profile during a
\* scan, the recognition returns a match whose identity was accepted and
\* whose aggregated score is at least that of every accepted candidate,
\* whatever the other stored profiles are.
C4_HighestAcceptedWins ==
    (Scanned /\ AcceptedInScan # {}) =>
        /\ result.match_found
        /\ \E i \in AcceptedInScan :
              /\ Scan[i].student_id = result.student_id
              /\ \A j \in AcceptedInScan :
                    Scan[i].overall_similarity >= Scan[j].overall_similarity

\* C5: when the store is not empty and the validator accepts no stored
\* profile, the recognition grants no match and reports as best rejected
\* candidate a stored identity with the highest aggregated score, with the
\* validator's verdict on it.
C5_BestRejectedReported ==
    (Scanned /\ Len(face_encodings) > 0 /\ AcceptedInScan = {}) =>
        /\ ~result.match_found
        /\ "best_rejected_match" \in DOMAIN result
        /\ result.best_rejected_match # None
        /\ \E i \in 1..Len(Scan) :
              /\ Scan[i].student_id = result.best_rejected_match.student_id
              /\ Scan[i].validation = result.best_rejected_match.validation
              /\ \A j \in 1..Len(Scan) :
                    Scan[i].overall_similarity >= Scan[j].overall_similarity

\* C9: a successful enrolment of an identity followed at once by the
\* recognition of the same image returns that identity at tier ULTRA_HIGH
\* or HIGH, whatever else is stored.
C9_EnrollThenRecognize ==
    [][ ( /\ call.name = "extract_and_save_face"
          /\ result = TRUE
          /\ call'.name = "recognize_face_from_image"
          /\ call'.image = download_image_from_url(call.photo_url) )
        => ( /\ result'.match_found
             /\ result'.student_id = call.student_id
             /\ result'.confidence_level \in {"ULTRA_HIGH", "HIGH"} ) ]_vars

\* The families of a bundle and the length of each family's vector.
LayoutOf(features) == [f \in DOMAIN features |-> Len(features[f])]

MismatchedInScan ==
    {i \in 1..Len(Scan) :
        LayoutOf(face_encodings[i].value)
            # LayoutOf(extract_ultra_robust_features(call.image))}

\* C10: when a stored profile's layout differs from the probe's, the
\* recognition grants no match and does not end as an ordinary failed
\* validation, no similarity is produced for that profile and the profile
\* is not accepted.
C10_LayoutMismatchFailsFast ==
    (Scanned /\ MismatchedInScan # {}) =>
        /\ ~result.match_found
        /\ result.reason # NoValidationReason
        /\ \A i \in MismatchedInScan :
              /\ Scan[i].similarities = << >>
              /\ ~Scan[i].validation.accept

(***************************************************************************)
(* Claims about the stages of a request.                                   *)
(***************************************************************************)
\* What a request has behind it when it has passed each stage.
LocatedOk ==
    /\ request # None
    /\ request.decodable
    /\ Len(request.faces) > 0
    /\ uploaded_face # None

QualityOk == LocatedOk /\ validate_face_quality(uploaded_face).is_valid

ExtractedOk == QualityOk /\ secure_features # None

ScoredOk == ExtractedOk /\ face_features # << >> /\ secure_results # << >>

StageOrder == <<"RECEIVED", "LOCATED", "QUALITY_CHECKED", "FEATURES_EXTRACTED",
                "SCORED", "DECIDED">>

StageRank(s) == CHOOSE i \in 1..Len(StageOrder) : StageOrder[i] = s

\* The stage changes by entering a new request once the last one is over,
\* by going on to the next stage, by rejecting from any stage, or by
\* accepting from DECIDED.
StepInOrder ==
    stage' # stage =>
        \/ stage \in Terminal \cup {"IDLE"} /\ stage' = "RECEIVED"
        \/ /\ stage \notin Terminal \cup {"IDLE", "DECIDED"}
           /\ stage' = StageOrder[StageRank(stage) + 1]
        \/ stage \notin Terminal \cup {"IDLE"} /\ stage' = "REJECTED"
        \/ stage = "DECIDED" /\ stage' = "ACCEPTED"

\* An accepted request carries an identity and a tier, a rejected one a
\* reason.
OutcomeCarried ==
    /\ stage = "ACCEPTED" =>
           /\ response.match_found
           /\ response.student_id \in Keys(face_features)
           /\ response.confidence_level \in {"HIGH", "MEDIUM"}
    /\ stage = "REJECTED" =>
           /\ ~response.match_found
           /\ "reason" \in DOMAIN response

\* C12: a request goes through RECEIVED, LOCATED, QUALITY_CHECKED,
\* FEATURES_EXTRACTED, SCORED, DECIDED in that order without going back to a
\* stage, ends in ACCEPTED with an identity and a tier or in REJECTED with a
\* reason, stays there, and every request that was received does end.
C12_StagesInOrderThenOneOutcome ==
    /\ []OutcomeCarried
    /\ [][StepInOrder]_vars
    /\ (stage = "RECEIVED") ~> (stage \in Terminal)

\* A request has gone through every stage and was accepted at the MEDIUM
\* tier.
C12_Witness ==
    /\ stage = "ACCEPTED"
    /\ response.confidence_level = "MEDIUM"
    /\ secure_features # None
    /\ Len(secure_results) = 2

(***************************************************************************)
(* Claims about concurrent requests.                                       *)
(***************************************************************************)
\* Thread t has been through the comparison loop of a recognition, or was
\* thrown out of it.
ScanOver(t) ==
    /\ threads[t].pc \in {"temp_exists", "unlink", "done"}
    /\ threads[t].op = "recognize_face_from_image"
    /\ threads[t].instants # {}

\* C13: the profiles a scan was compared against are the content of
\* face_encodings at one instant between the start and the end of the scan,
\* and no scan ends because the dict changed under it.
C13_ScanSeesOneInstant ==
    \A t \in Threads :
        ScanOver(t) =>
            /\ threads[t].returned # [match_found |-> FALSE, reason |-> ChangedSizeReason]
            /\ threads[t].scanned \in threads[t].instants

\* The value a dict holds for a key.
ValueAt(d, k) == d[CHOOSE i \in 1..Len(d) : d[i].key = k].value

\* Both threads have made one call, an enrolment of student_id, and both
\* calls have returned.
BothEnrolled(student_id) ==
    \A t \in Threads :
        /\ threads[t].pc = "done"
        /\ threads[t].calls = 1
        /\ threads[t].op = "extract_and_save_face"
        /\ threads[t].student_id = student_id

\* The profile of student_id, in memory and in the files, is the one the
\* call of thread t makes from its own photo.
ProfileFrom(t, student_id) ==
    /\ threads[t].image # None
    /\ student_id \in Keys(face_encodings)
    /\ student_id \in Keys(face_data)
    /\ ValueAt(face_encodings, student_id)
           = extract_ultra_robust_features(threads[t].image)
    /\ ValueAt(face_data, student_id)
           = FaceData(student_id, threads[t].photo_url,
                      extract_ultra_robust_features(threads[t].image))
    /\ encodings_file = save_face_encodings(face_encodings)
    /\ face_data_file = save_face_data(face_data)

\* C14: after two concurrent enrolments of one student of which one at
\* least succeeded, the stored profile (bundle and metadata, in memory and
\* in the files) is wholly that of one of the two calls, with the bundle of
\* that call's own photo.
C14_ConcurrentEnrollsLeaveOneProfile ==
    \A student_id \in StudentIds :
        (BothEnrolled(student_id) /\ \E t \in Threads : threads[t].returned = TRUE) =>
            \E t \in Threads : ProfileFrom(t, student_id)

\* Both threads have made one call, a recognition, and both calls have
\* returned; nobody has enrolled meanwhile.
BothRecognized ==
    \A t \in Threads :
        /\ threads[t].pc = "done"
        /\ threads[t].calls = 1
        /\ threads[t].op = "recognize_face_from_image"

\* C15: two concurrent recognitions over an unchanged store each return
\* what the call returns when it runs alone on its own image.
C15_ConcurrentRecognitionsIndependent ==
    BothRecognized =>
        \A t \in Threads :
            threads[t].returned
                = recognize_face_from_image(threads[t].image, face_encodings)

(***************************************************************************)
(* Claims about the recognizer, one call at a time.                        *)
(***************************************************************************)
\* The accepted candidates of the last scan that share its highest score.
TopAccepted ==
    {i \in AcceptedInScan :
        \A j \in AcceptedInScan :
            Scan[i].validation.overall_similarity >= Scan[j].validation.overall_similarity}

DistinctKeys(d) == \A i, j \in 1..Len(d) : d[i].key = d[j].key => i = j

\* An enrolment that succeeds leaves for its student exactly the bundle and
\* the metadata made from its photo and every other student's profile as it
\* was; one that fails leaves both dicts as they were.
EnrollReplaces ==
    call'.name = "extract_and_save_face" =>
        LET student_id == call'.student_id
            features == extract_ultra_robust_features(
                            download_image_from_url(call'.photo_url))
        IN  IF result' = TRUE
            THEN /\ Keys(face_encodings') = Keys(face_encodings) \cup {student_id}
                 /\ Keys(face_data') = Keys(face_data) \cup {student_id}
                 /\ ValueAt(face_encodings', student_id) = features
                 /\ ValueAt(face_data', student_id)
                        = FaceData(student_id, call'.photo_url, features)
                 /\ \A k \in Keys(face_encodings) \ {student_id} :
                        ValueAt(face_encodings', k) = ValueAt(face_encodings, k)
                 /\ \A k \in Keys(face_data) \ {student_id} :
                        ValueAt(face_data', k) = ValueAt(face_data, k)
            ELSE UNCHANGED <<face_encodings, face_data>>

\* C17: the store never holds two profiles for one identity, and after a
\* successful enrolment the profile of that identity is exactly the bundle
\* and metadata of that enrolment, nothing of an older profile remaining,
\* while the other identities keep theirs.
C17_OneProfilePerIdentityTheLatest ==
    /\ [](DistinctKeys(face_encodings) /\ DistinctKeys(face_data))
    /\ [][EnrollReplaces]_vars

\* The first of two profiles loaded from the files, one written by an
\* earlier release, has just been replaced by an enrolment, the second one
\* is still the loaded one.
C17_Witness ==
    /\ call.name = "extract_and_save_face"
    /\ result = TRUE
    /\ Len(face_encodings) = 2
    /\ face_encodings[1].key = call.student_id
    /\ face_encodings[1].value
           = extract_ultra_robust_features(download_image_from_url(call.photo_url))
    /\ face_encodings[2].value \in {p.features : p \in PersistedProfiles}
    /\ face_data[1].key = call.student_id
    /\ face_data[1].value.photo_url = call.photo_url

(***************************************************************************)
(* C18.  Recognition leaves the profile store alone.                       *)
(***************************************************************************)
RecognitionStep == call'.name = "recognize_face_from_image"

StoreUnchanged ==
    UNCHANGED <<face_encodings, face_data, encodings_file, face_data_file>>

EnhancedRecognized == enhanced_call.name = "recognize_face_from_image"

\* C19: whatever image recognize_face_from_image is given and whichever
\* stage fails (conversion, face location, extraction, comparison), the
\* value it returns carries an accept flag and, when nothing was accepted,
\* a reason.
C19_RecognizeReturnsFlagAndReason ==
    EnhancedRecognized =>
        /\ enhanced_result # None
        /\ "match_found" \in DOMAIN enhanced_result
        /\ (~enhanced_result.match_found => "reason" \in DOMAIN enhanced_result)

(***************************************************************************)
(* C20.  A descriptor that fails makes the request fail.                   *)
(***************************************************************************)
\* C20: when calculate_lbp fails inside the extraction of a photo, the
\* enrolment or recognition of that photo fails for want of features, and
\* no stored bundle holds the histogram of the zero array that stands in
\* for the failed descriptor.
C20_FailedDescriptorFailsRequest ==
    /\ (call.name = "extract_and_save_face"
            /\ download_image_from_url(call.photo_url) # None
            /\ LbpRaises(download_image_from_url(call.photo_url))
          => result = FALSE)
    /\ (call.name = "recognize_face_from_image" /\ LbpRaises(call.image)
          => ~result.match_found /\ result.reason = ExtractionReason)
    /\ \A i \in 1..Len(face_encodings) :
           "lbp" \in DOMAIN face_encodings[i].value
               => face_encodings[i].value.lbp # ZeroLbpHistogram

(***************************************************************************)
(* C21.  The decision of the quality gate.                                 *)
(***************************************************************************)
QualityApplied == applied = "validate_face_quality"

\* The reason of the first check, in the order size, sharpness, lighting,
\* contrast, that the crop fails when blurry(c) and flat(c) say which crops
\* fail the sharpness and the contrast check; "none" when it fails none.
FirstFailure(c, blurry, flat) ==
    IF c.h * c.w = 0 THEN "Empty or invalid image"
    ELSE IF c.h < 50 \/ c.w < 50 THEN "Face too small"
    ELSE IF blurry THEN "Image too blurry"
    ELSE IF c.brightness < 30 \/ c.brightness > 230 THEN "Poor lighting"
    ELSE IF flat THEN "Low contrast"
    ELSE "none"

\* C21 as stated: the gate reports the first failing check in the order
\* size, sharpness, lighting, contrast, and a crop passes exactly when its
\* smaller side is at least 50, its Laplacian variance exceeds 100, its
\* mean intensity lies in [30, 230] and its standard deviation exceeds 20.
C21_AsStated ==
    QualityApplied =>
        LET reason == FirstFailure(argument, argument.laplacian_var <= 100,
                                   argument.contrast <= 20)
        IN  /\ returned.quality.is_valid <=> (reason = "none")
            /\ (reason # "none" => returned.quality.message = reason)

\* C21, amended: the gate reports the first failing check in the order
\* size, sharpness, lighting, contrast, and a crop passes exactly when its
\* smaller side is at least 50, its Laplacian variance is at least 100, its
\* mean intensity lies in [30, 230] and its standard deviation is at least
\* 20; the overall score rejects no crop that passes the four checks.
C21_FirstFailingCheckDecides ==
    QualityApplied =>
        LET reason == FirstFailure(argument, argument.laplacian_var < 100,
                                   argument.contrast < 20)
        IN  /\ returned.quality.is_valid <=> (reason = "none")
            /\ (reason # "none" => returned.quality.message = reason)

\* A crop exactly on the blur floor and on the contrast floor has passed.
C21_Witness ==
    /\ QualityApplied
    /\ argument.laplacian_var = 100
    /\ argument.contrast = 20
    /\ returned.quality.is_valid

(***************************************************************************)
(* C22.  A crop without any variation of intensity.                        *)
(***************************************************************************)
\* An all-black or uniformly gray crop of adequate size.
Uniform(c) == c.contrast = 0 /\ c.laplacian_var = 0 /\ c.h >= 50 /\ c.w >= 50

\* C22 as stated: a uniform crop of adequate size is rejected for its
\* lighting or its contrast, and the extractor yields nothing for it.
C22_AsStated ==
    QualityApplied /\ Uniform(argument) =>
        /\ ~returned.quality.is_valid
        /\ returned.quality.message \in {"Poor lighting", "Low contrast"}
        /\ returned.features = None

\* C22, amended: a uniform crop of adequate size is rejected as too blurry,
\* the sharpness check coming before the lighting and the contrast check,
\* and the extractor returns None for it before it computes anything.
C22_UniformCropRejectedAsBlurry ==
    QualityApplied /\ Uniform(argument) =>
        /\ ~returned.quality.is_valid
        /\ returned.quality.message = "Image too blurry"
        /\ returned.features = None

\* A uniformly gray crop of 100 x 100 has gone through the gate.
C22_Witness ==
    /\ QualityApplied
    /\ Uniform(argument)
    /\ argument.brightness = 128
    /\ argument.w = 100 /\ argument.h = 100
    /\ returned.features = None

(***************************************************************************)
(* C23.  The crop around the largest face.                                 *)
(***************************************************************************)
Cropped == applied = "crop_face"

Within(crop, image) ==
    /\ 0 <= crop.x /\ crop.x + crop.w <= image.width
    /\ 0 <= crop.y /\ crop.y + crop.h <= image.height

Contains(crop, box) ==
    /\ crop.x <= box.x /\ box.x + box.w <= crop.x + crop.w
    /\ crop.y <= box.y /\ box.y + box.h <= crop.y + crop.h

\* C23: the crop is the box of maximum area grown by
\* p = floor(0.1 * min(w, h)) on each of its four sides and intersected
\* with the image; it lies within the image and contains the box.
C23_CropIsGrownBoxWithinImage ==
    Cropped =>
        \E i \in 1..Len(argument.faces) :
            LET box == argument.faces[i]
                p   == Min2(box.w, box.h) \div 10
                x0  == Max2(0, box.x - p)
                y0  == Max2(0, box.y - p)
                x1  == Min2(argument.width, box.x + box.w + p)
                y1  == Min2(argument.height, box.y + box.h + p)
            IN  /\ \A j \in 1..Len(argument.faces) :
                       box.w * box.h >= argument.faces[j].w * argument.faces[j].h
                /\ returned.x = x0 /\ returned.y = y0
                /\ returned.w = x1 - x0 /\ returned.h = y1 - y0
                /\ Within(returned, argument)
                /\ Contains(returned, box)

(***************************************************************************)
(* C24.  The confidence an accepted match has.                             *)
(***************************************************************************)
\* C24: the secure recognizer returns match_found = true only for a
\* candidate whose ensemble score is at least 0.85.
C24_AcceptOnlyFromHighConfidence ==
    response # None /\ response.match_found =>
        response.ensemble_score >= 100 * HIGH_CONFIDENCE_THRESHOLD

(***************************************************************************)
(* C25.  An enrolment that fails.                                          *)
(***************************************************************************)
\* A call of extract_and_save_face on thread t has returned False.
EnrollFailed(t) ==
    /\ threads[t].pc = "done"
    /\ threads[t].op = "extract_and_save_face"
    /\ threads[t].returned = FALSE

\* The call on thread t got its features, after which it assigns them to
\* self.face_encodings, assigns self.face_data and saves both files before
\* anything else can make it return.
WroteStore(t) == threads[t].features # None

\* C25: a call of extract_and_save_face that returns False has left the
\* in-memory encodings and metadata and the persisted files as they were:
\* it has written none of them.
C25_FailedEnrollLeavesStore ==
    \A t \in Threads : EnrollFailed(t) => ~WroteStore(t)

(***************************************************************************)
(* C26.  What a successful enrolment leaves in memory and on disk.         *)
(***************************************************************************)
\* C26: whenever extract_and_save_face has returned True, the encodings
\* file and the metadata file hold exactly the two in-memory maps, and the
\* two maps have the same students.
C26_FilesAndMapsAgreeAfterEnroll ==
    call.name = "extract_and_save_face" /\ result = TRUE =>
        /\ load_face_encodings(encodings_file) = face_encodings
        /\ load_face_data(face_data_file) = face_data
        /\ Keys(face_encodings) = Keys(face_data)

(***************************************************************************)
(* C27.  The store through save and load.                                  *)
(***************************************************************************)
\* C27: what save_face_encodings has written, load_face_encodings reads
\* back as the store it was, with the same student ids and the same family
\* vectors, whether the ids are strings or integers; so the store never
\* holds two profiles of one student, also when a student is enrolled
\* again after a restart.
C27_RoundTripKeepsIdentities ==
    /\ (call.name = "extract_and_save_face" /\ result = TRUE
          => load_face_encodings(encodings_file) = face_encodings)
    /\ \A i, j \in 1..Len(face_encodings) :
           JsonKey(face_encodings[i].key) = JsonKey(face_encodings[j].key) => i = j


(***************************************************************************)
(* Claims about the tier of the identity a recognition returns.            *)
(***************************************************************************)
\* The order of the confidence levels the validator grants.
TierRank(level) ==
    CASE level = "ULTRA_HIGH" -> 3
      [] level = "HIGH"       -> 2
      [] level = "MEDIUM"     -> 1
      [] OTHER                -> 0

\* C28: the confidence tier of the identity a recognition returns is never
\* lower than the tier of any other candidate accepted in the same scan.
C28_ReturnedTierIsHighest ==
    (Scanned /\ result.match_found) =>
        \A j \in AcceptedInScan :
            TierRank(result.confidence_level)
                >= TierRank(Scan[j].validation.confidence_level)


(***************************************************************************)
(* Claims about attendance marking.                                        *)
(***************************************************************************)
\* The table holds at most one record per student and day.
OnePerStudentAndDay ==
    \A i, j \in 1..Len(attendance) :
        (/\ attendance[i].student_id = attendance[j].student_id
         /\ attendance[i].date = attendance[j].date) => i = j

\* The handler of request r returns in this step.
Returns(r) == requests[r].pc = "reading" /\ requests'[r].pc = "idle"

\* C29: after any sequence of /mark-attendance requests, concurrently
\* handled ones included, the table holds at most one record per student
\* and day; a record is added only by a request whose recognition returned
\* that student with match_found and a confidence >= 70; and a request that
\* is rejected at any check leaves the table unchanged.
C29_OneRecordPerStudentAndDay ==
    [][/\ OnePerStudentAndDay'
       /\ attendance' # attendance => \E r \in RequestIds : Returns(r)
       /\ \A r \in RequestIds :
             Returns(r) =>
                 LET recognition ==
                         professional_recognize_face_from_image(
                             requests[r].file, ProfessionalEncodings)
                 IN  IF requests'[r].response.success
                     THEN /\ recognition.match_found
                          /\ recognition.confidence >= 70
                          /\ Len(attendance') = Len(attendance) + 1
                          /\ SubSeq(attendance', 1, Len(attendance)) = attendance
                          /\ attendance'[Len(attendance')].student_id
                                 = recognition.student_id
                          /\ attendance'[Len(attendance')].date = today
                     ELSE attendance' = attendance]_vars

\* Two requests with pictures of one student were handled at the same time:
\* the one that returned first marked the student, the other one was
\* answered that the attendance is marked already, and the table holds one
\* record.
C29_Witness ==
    \E r, q \in RequestIds :
        /\ r # q
        /\ requests[r].calls = 1 /\ requests[q].calls = 1
        /\ requests[r].pc = "idle" /\ requests[q].pc = "idle"
        /\ requests[r].overlapped
        /\ requests[r].response.success
        /\ requests[q].response.message = "Attendance already marked for today"
        /\ Len(attendance) = 1

(***************************************************************************)
(* Claims about the database-backed recognizer.                            *)
(***************************************************************************)
\* C30: every call of recognize_student compares the probe with exactly the
\* active students that have an encoding in the database at that moment, so
\* that its result is the best match among those.
C30_RecognizesAgainstCurrentStudents ==
    (db_call.name = "recognize_student" /\ encode_face(db_call.frame) # None) =>
        db_call.result = best_match(load_student_faces(students, 1),
                                    encode_face(db_call.frame), 1, None)

====
